---- MODULE Spec2Model ----
(***************************************************************************)
(* Model of the financial-dashboard calculation core and watchlist CRUD:   *)
(* the Money / Percentage / StockSymbol value objects, the Portfolio and   *)
(* WatchlistItem entities, WatchlistService alerting, the in-memory        *)
(* repositories, the ManageWatchlist / GetPortfolio use cases and the      *)
(* HTTP routes.                                                            *)
(*                                                                         *)
(* Representation.                                                         *)
(*  - A string the code inspects (symbols, currency codes) is a sequence   *)
(*    of one-character strings, so that length, trim, toUpperCase and the  *)
(*    regular expressions are computed and not looked up.                  *)
(*  - A JavaScript number that feeds a 2-decimal value object is the       *)
(*    rational n/d counted in hundredths (cents for Money, hundredths of   *)
(*    a percent for Percentage); the stored amount is the integer          *)
(*    Math.round(n/d) of hundredths.                                       *)
(*  - A call that can throw returns [ok |-> TRUE, val |-> v] or            *)
(*    [ok |-> FALSE, err |-> message].                                     *)
(***************************************************************************)
EXTENDS Integers, Sequences, FiniteSets, TLC

VARIABLES
    items,       \* MemoryWatchlistRepository.items     : id -> WatchlistItemData
    userItems,   \* MemoryWatchlistRepository.userItems : userId -> Seq(id)
    currentId,   \* MemoryWatchlistRepository.currentId
    last,        \* the last use-case call or HTTP request and its outcome
    mny,         \* Money calculator: operands and result of the last operation
    portfolios,  \* MemoryPortfolioRepository.portfolios : userId -> PortfolioData
    pCurrentId,  \* MemoryPortfolioRepository.currentId
    pout,        \* outcome of the last Portfolio operation
    alr,         \* WatchlistService.checkAlerts: inputs and emitted alerts
    services,    \* Container.services: the registered keys
    call         \* the last call of a domain operation: arguments and outcome

vars == <<items, userItems, currentId, last, mny, portfolios, pCurrentId, pout, alr, services, call>>

Ok(v) == [ok |-> TRUE, val |-> v]
Err(e) == [ok |-> FALSE, err |-> e]
\* an error caught and rethrown as `${prefix}: ${message}`
Wrap(prefix, r) == [ok |-> FALSE, err |-> r.err, prefix |-> prefix]
\* the JavaScript null
Null == [null |-> TRUE]
\* { ...a, ...b } for records a and b
Spread(a, b) == [f \in DOMAIN a \cup DOMAIN b |-> IF f \in DOMAIN b THEN b[f] ELSE a[f]]

(***************************************************************************)
(* Container                                                               *)
(***************************************************************************)
\* the keys registerServices sets when the container is constructed
RegisteredServices ==
    {"IPortfolioRepository", "IStockRepository", "ITransactionRepository",
     "IPortfolioCalculationService", "GetPortfolioUseCase", "GetMarketDataUseCase",
     "GetTransactionsUseCase", "GetDashboardDataUseCase"}

ContainerGet(key) ==
    IF key \in services THEN Ok(key) ELSE Err("Service not found: " \o key)

(***************************************************************************)
(* Strings                                                                 *)
(***************************************************************************)
LowerCaseLetters == <<"a", "b", "c", "d", "e", "f", "g", "h", "i", "j", "k", "l", "m",
                      "n", "o", "p", "q", "r", "s", "t", "u", "v", "w", "x", "y", "z">>
UpperCaseLetters == <<"A", "B", "C", "D", "E", "F", "G", "H", "I", "J", "K", "L", "M",
                      "N", "O", "P", "Q", "R", "S", "T", "U", "V", "W", "X", "Y", "Z">>

UpperChar(c) ==
    IF \E i \in 1..26 : LowerCaseLetters[i] = c
    THEN UpperCaseLetters[CHOOSE i \in 1..26 : LowerCaseLetters[i] = c]
    ELSE c

\* String.prototype.toUpperCase
ToUpperCase(s) == [i \in 1..Len(s) |-> UpperChar(s[i])]

RECURSIVE TrimStart(_)
TrimStart(s) == IF s # <<>> /\ Head(s) = " " THEN TrimStart(Tail(s)) ELSE s

RECURSIVE TrimEnd(_)
TrimEnd(s) == IF s # <<>> /\ s[Len(s)] = " " THEN TrimEnd(SubSeq(s, 1, Len(s) - 1)) ELSE s

\* String.prototype.trim
Trim(s) == TrimEnd(TrimStart(s))

USD == <<"U", "S", "D">>
EUR == <<"E", "U", "R">>

(***************************************************************************)
(* Numbers                                                                 *)
(***************************************************************************)
\* Math.round(n/d) for d > 0: the nearest integer, halves towards +infinity.
MathRound(n, d) == (2 * n + d) \div (2 * d)

\* A decimal string: kind "num" holds the value n/d in hundredths; "junk"
\* has no digits (parseFloat gives NaN); "empty" is ''.
NumStr(n, d) == [kind |-> "num", n |-> n, d |-> d]
JunkStr == [kind |-> "junk", n |-> 0, d |-> 1]
EmptyStr == [kind |-> "empty", n |-> 0, d |-> 1]

(***************************************************************************)
(* Money                                                                   *)
(***************************************************************************)
MoneyEquals(m, other) == m.amount = other.amount /\ m.currency = other.currency

\* mutant: the constructor without its negative-amount guard
MoneyNew_NoNegativeGuard(n, d, currency) ==
    IF Len(currency) # 3 THEN [ok |-> FALSE, err |-> "Currency must be a valid 3-letter code"]
    ELSE [ok |-> TRUE, val |-> [amount |-> MathRound(n, d), currency |-> ToUpperCase(currency)]]

MoneyNew(n, d, currency) ==
    IF n < 0 THEN Err("Money amount cannot be negative")
    ELSE IF Len(currency) # 3 THEN Err("Currency must be a valid 3-letter code")
    ELSE Ok([amount |-> MathRound(n, d), currency |-> ToUpperCase(currency)])

\* mutant: the currency check accepts any pair
ensureSameCurrency_Always(m, other) == TRUE

ensureSameCurrency(m, other) == m.currency = other.currency

MoneyAdd(m, other) ==
    IF ~ensureSameCurrency(m, other) THEN Err("Currency mismatch")
    ELSE MoneyNew(m.amount + other.amount, 1, m.currency)

\* mutant: subtract rejects a zero result as well
MoneySubtract_RejectsZero(m, other) ==
    IF ~ensureSameCurrency(m, other) THEN Err("Currency mismatch")
    ELSE IF m.amount - other.amount <= 0 THEN Err("Cannot subtract to negative amount")
    ELSE MoneyNew(m.amount - other.amount, 1, m.currency)

MoneySubtract(m, other) ==
    IF ~ensureSameCurrency(m, other) THEN Err("Currency mismatch")
    ELSE IF m.amount - other.amount < 0 THEN Err("Cannot subtract to negative amount")
    ELSE MoneyNew(m.amount - other.amount, 1, m.currency)

\* factor = fn/fd
MoneyMultiply(m, fn, fd) ==
    IF fn < 0 THEN Err("Cannot multiply by negative factor")
    ELSE MoneyNew(m.amount * fn, fd, m.currency)

MoneyDivide(m, divisor) ==
    IF divisor <= 0 THEN Err("Cannot divide by zero or negative number")
    ELSE MoneyNew(m.amount, divisor, m.currency)

MoneyIsGreaterThan(m, other) ==
    IF ~ensureSameCurrency(m, other) THEN Err("Currency mismatch")
    ELSE Ok(m.amount > other.amount)

MoneyIsLessThan(m, other) ==
    IF ~ensureSameCurrency(m, other) THEN Err("Currency mismatch")
    ELSE Ok(m.amount < other.amount)

MoneyFromString(s) ==
    IF s.kind # "num" THEN Err("Invalid money string")
    ELSE MoneyNew(s.n, s.d, USD)

MoneyZero == MoneyNew(0, 1, USD)

(***************************************************************************)
(* Percentage: value is the integer number of hundredths of a percent.     *)
(***************************************************************************)
RECURSIVE LongDiv(_, _, _)
\* <<floor(n * 10^k / d), remainder>> by long division, for d > 0
LongDiv(n, d, k) ==
    IF k = 0 THEN <<n \div d, n % d>>
    ELSE LET p == LongDiv(n, d, k - 1)
         IN  <<p[1] * 10 + (p[2] * 10) \div d, (p[2] * 10) % d>>

\* Math.round(n * 10^k / d)
RoundScaled(n, d, k) ==
    LET p == LongDiv(n, d, k) IN p[1] + (IF 2 * p[2] >= d THEN 1 ELSE 0)

\* new Percentage(n/d percent-hundredths); d = 0 stands for a non-finite number
PercentageNew(n, d) ==
    IF d = 0 THEN Err("Percentage value must be a finite number")
    ELSE Ok([value |-> MathRound(n, d)])

\* Percentage.fromDecimal(n/d) = new Percentage(n/d * 100)
PercentageFromDecimal(n, d) ==
    IF d = 0 THEN Err("Percentage value must be a finite number")
    ELSE Ok([value |-> RoundScaled(n, d, 4)])

PercentageFromString(s) ==
    IF s.kind # "num" THEN Err("Invalid percentage string")
    ELSE PercentageNew(s.n, s.d)

PercentageZero == PercentageNew(0, 1)

(***************************************************************************)
(* Portfolio entity                                                        *)
(***************************************************************************)
\* mutant: validate() without the upper bound on the success rate
PortfolioValidate_NoUpperBound(p) ==
    IF p.id <= 0 THEN Err("Portfolio ID must be positive")
    ELSE IF p.userId <= 0 THEN Err("User ID must be positive")
    ELSE IF p.activePositions < 0 THEN Err("Active positions cannot be negative")
    ELSE IF p.successRate.value < 0
         THEN Err("Success rate must be between 0 and 100")
    ELSE Ok(p)

PortfolioValidate(p) ==
    IF p.id <= 0 THEN Err("Portfolio ID must be positive")
    ELSE IF p.userId <= 0 THEN Err("User ID must be positive")
    ELSE IF p.activePositions < 0 THEN Err("Active positions cannot be negative")
    ELSE IF p.successRate.value < 0 \/ p.successRate.value > 10000
         THEN Err("Success rate must be between 0 and 100")
    ELSE Ok(p)

\* new Portfolio(data): the three value objects are parsed in order, then validate()
PortfolioNew(data) ==
    LET tv == MoneyFromString(data.totalValue)
        pnl == MoneyFromString(data.dailyPnL)
        sr == PercentageFromString(data.successRate)
    IN  IF ~tv.ok THEN tv
        ELSE IF ~pnl.ok THEN pnl
        ELSE IF ~sr.ok THEN sr
        ELSE PortfolioValidate([id |-> data.id, userId |-> data.userId,
                                totalValue |-> tv.val, dailyPnL |-> pnl.val,
                                successRate |-> sr.val,
                                activePositions |-> data.activePositions])

getDailyReturnPercentage(p) ==
    IF p.totalValue.amount = 0 THEN PercentageZero
    ELSE LET previousValue == MoneySubtract(p.totalValue, p.dailyPnL)
         IN  IF ~previousValue.ok THEN previousValue
             ELSE IF previousValue.val.amount = 0 THEN PercentageZero
             ELSE PercentageFromDecimal(p.dailyPnL.amount, previousValue.val.amount)

isPerformingWell(p) == p.dailyPnL.amount > 0 /\ p.successRate.value >= 7000

getAveragePositionValue(p) ==
    IF p.activePositions = 0 THEN MoneyZero
    ELSE MoneyDivide(p.totalValue, p.activePositions)

\* mutant: five positions are not enough
isDiversified_MoreThanFive(p) == p.activePositions > 5

isDiversified(p) == p.activePositions >= 5

getPerformanceStatus(p) ==
    LET dailyReturn == getDailyReturnPercentage(p)
    IN  IF ~dailyReturn.ok THEN dailyReturn
        ELSE IF dailyReturn.val.value >= 200 /\ p.successRate.value >= 8000 THEN Ok("excellent")
        ELSE IF dailyReturn.val.value >= 100 /\ p.successRate.value >= 7000 THEN Ok("good")
        ELSE IF dailyReturn.val.value >= 0 /\ p.successRate.value >= 6000 THEN Ok("average")
        ELSE Ok("poor")

(***************************************************************************)
(* StockSymbol                                                             *)
(***************************************************************************)
\* mutant: the symbol is trimmed but not upper-cased
StockSymbolNew_NoUpperCase(symbol) ==
    IF symbol = <<>> THEN Err("Stock symbol must be a non-empty string")
    ELSE LET cleanSymbol == Trim(symbol)
         IN  IF Len(cleanSymbol) < 1 \/ Len(cleanSymbol) > 5
             THEN Err("Stock symbol must be between 1 and 5 characters")
             ELSE IF \E i \in 1..Len(cleanSymbol) :
                        \A j \in 1..26 : UpperCaseLetters[j] # cleanSymbol[i]
             THEN Err("Stock symbol must contain only letters")
             ELSE Ok([value |-> cleanSymbol])

StockSymbolNew(symbol) ==
    IF symbol = <<>> THEN Err("Stock symbol must be a non-empty string")
    ELSE LET cleanSymbol == ToUpperCase(Trim(symbol))
         IN  IF Len(cleanSymbol) < 1 \/ Len(cleanSymbol) > 5
             THEN Err("Stock symbol must be between 1 and 5 characters")
             ELSE IF \E i \in 1..Len(cleanSymbol) :
                        \A j \in 1..26 : UpperCaseLetters[j] # cleanSymbol[i]
             THEN Err("Stock symbol must contain only letters")
             ELSE Ok([value |-> cleanSymbol])

(***************************************************************************)
(* WatchlistItem entity.  WatchlistItemData is a record whose optional     *)
(* fields notes and targetPrice may be missing from its domain.            *)
(***************************************************************************)
WatchlistItemValidate(data) ==
    IF data.id <= 0 THEN Err("Watchlist item ID must be positive")
    ELSE IF data.userId <= 0 THEN Err("User ID must be positive")
    ELSE IF data.symbol = <<>> \/ Len(Trim(data.symbol)) = 0 THEN Err("Stock symbol is required")
    ELSE Ok(data)

\* new WatchlistItem(data)
WatchlistItemNew(data) == WatchlistItemValidate(data)

ItemSymbol(item) == StockSymbolNew(item.symbol)

\* get targetPrice(): null for a missing or empty string
ItemTargetPrice(item) ==
    IF "targetPrice" \notin DOMAIN item \/ item.targetPrice.kind = "empty" THEN Ok(Null)
    ELSE MoneyFromString(item.targetPrice)

ItemHasTargetPrice(item) ==
    LET targetPrice == ItemTargetPrice(item)
    IN  IF ~targetPrice.ok THEN targetPrice ELSE Ok(targetPrice.val # Null)

(***************************************************************************)
(* Stock entity (the fields the watchlist reads)                           *)
(***************************************************************************)
StockNew(data) ==
    LET symbol == StockSymbolNew(data.symbol)
        price == MoneyFromString(data.price)
        \* Money.fromString(Math.abs(parseFloat(data.change)).toString())
        change == IF data.change.kind # "num" THEN Err("Invalid money string")
                  ELSE MoneyNew(IF data.change.n < 0 THEN 0 - data.change.n ELSE data.change.n,
                                data.change.d, USD)
        changePercent == PercentageFromString(data.changePercent)
    IN  IF ~symbol.ok THEN symbol
        ELSE IF ~price.ok THEN price
        ELSE IF ~change.ok THEN change
        ELSE IF ~changePercent.ok THEN changePercent
        ELSE IF data.id <= 0 THEN Err("Stock ID must be positive")
        ELSE IF data.name = <<>> \/ Len(Trim(data.name)) = 0 THEN Err("Stock name cannot be empty")
        ELSE IF data.volume < 0 THEN Err("Volume cannot be negative")
        ELSE Ok([id |-> data.id, symbol |-> symbol.val, name |-> data.name,
                 price |-> price.val, change |-> change.val,
                 changePercent |-> changePercent.val, volume |-> data.volume])

(***************************************************************************)
(* WatchlistService                                                        *)
(***************************************************************************)
\* stocks.find(stock => stock.symbol.value === symbol) || null
findStockBySymbol(symbol, stocks) ==
    IF \E i \in 1..Len(stocks) : stocks[i].symbol.value = symbol
    THEN stocks[CHOOSE i \in 1..Len(stocks) :
                   /\ stocks[i].symbol.value = symbol
                   /\ \A j \in 1..(i - 1) : stocks[j].symbol.value # symbol]
    ELSE Null

shouldTriggerAlert(currentPrice, targetPrice) ==
    LET tolerance == MoneyMultiply(targetPrice, 2, 100)
    IN  IF ~tolerance.ok THEN tolerance
        ELSE LET upperBound == MoneyAdd(targetPrice, tolerance.val)
                 lowerBound == MoneySubtract(targetPrice, tolerance.val)
             IN  IF ~upperBound.ok THEN upperBound
                 ELSE IF ~lowerBound.ok THEN lowerBound
                 ELSE LET above == MoneyIsGreaterThan(currentPrice, upperBound.val)
                      IN  IF ~above.ok THEN above
                          ELSE IF above.val THEN Ok(TRUE)
                          ELSE MoneyIsLessThan(currentPrice, lowerBound.val)

\* one iteration of the loop of checkAlerts: Ok(<<>>) for `continue`,
\* Ok(<<alert>>) for a push, an error when the iteration throws
checkAlertsItem(item, currentStocks) ==
    IF ~item.alertEnabled THEN Ok(<<>>)
    ELSE LET hasTarget == ItemHasTargetPrice(item)
         IN  IF ~hasTarget.ok THEN hasTarget
             ELSE IF ~hasTarget.val THEN Ok(<<>>)
             ELSE LET symbol == ItemSymbol(item)
                  IN  IF ~symbol.ok THEN symbol
                      ELSE LET stock == findStockBySymbol(symbol.val.value, currentStocks)
                           IN  IF stock = Null THEN Ok(<<>>)
                               ELSE LET currentPrice == stock.price
                                        targetPrice == ItemTargetPrice(item).val
                                        trigger == shouldTriggerAlert(currentPrice, targetPrice)
                                        above == MoneyIsGreaterThan(currentPrice, targetPrice)
                                    IN  IF ~trigger.ok THEN trigger
                                        ELSE IF ~trigger.val THEN Ok(<<>>)
                                        ELSE IF ~above.ok THEN above
                                        ELSE Ok(<<[watchlistItem |-> item.id,
                                                   currentPrice |-> currentPrice,
                                                   targetPrice |-> targetPrice,
                                                   alertType |-> IF above.val THEN "above_target"
                                                                 ELSE "below_target"]>>)

RECURSIVE checkAlertsFrom(_, _, _)
checkAlertsFrom(watchlistItems, currentStocks, i) ==
    IF i > Len(watchlistItems) THEN Ok(<<>>)
    ELSE LET one == checkAlertsItem(watchlistItems[i], currentStocks)
         IN  IF ~one.ok THEN one
             ELSE LET rest == checkAlertsFrom(watchlistItems, currentStocks, i + 1)
                  IN  IF ~rest.ok THEN rest ELSE Ok(one.val \o rest.val)

checkAlerts(watchlistItems, currentStocks) == checkAlertsFrom(watchlistItems, currentStocks, 1)

(***************************************************************************)
(* Money calculator: two constructed Money values m0 and x, and a bounded  *)
(* sequence of Money operations applied to the current value cur with      *)
(* operand x.                                                              *)
(***************************************************************************)
MaxCents == 3
MaxOps == 2

Currencies == {USD, EUR}
\* what a caller may pass as currency: a code in either case, or a 2-letter string
CurrencyInputs == {USD, <<"u", "s", "d">>, EUR, <<"U", "S">>}
\* constructor arguments n/10 cents: negative, exact and half-way amounts
AmountInputs == {-10, -1, 0, 4, 5, 10, 15, 10 * MaxCents}
FactorInputs == {<<2, 100>>, <<3, 2>>, <<-1, 1>>}
DivisorInputs == {-1, 0, 2}

MoneyValues == {MoneyNew(n, 1, c).val : n \in 0..MaxCents, c \in Currencies}

InitMoney ==
    /\ \E m \in MoneyValues, x \in MoneyValues :
          mny = [m0 |-> m, cur |-> m, x |-> x, res |-> Ok(m), ops |-> <<>>,
                 arg |-> <<0, 1>>, pre |-> m]
    /\ items = <<>> /\ userItems = <<>> /\ currentId = 1
    /\ last = [op |-> "none"]
    /\ portfolios = <<>> /\ pCurrentId = 1 /\ pout = [op |-> "none"]
    /\ alr = [op |-> "none"]
    /\ services = RegisteredServices
    /\ call = [op |-> "none"]

\* record the result r of operation op; a Money result becomes the current value
MnyStep(op, r, arg) ==
    /\ Len(mny.ops) < MaxOps
    /\ mny' = [mny EXCEPT !.res = r, !.ops = Append(@, op), !.arg = arg,
                          !.pre = mny.cur,
                          !.cur = IF r.ok /\ op \notin {"isGreaterThan", "isLessThan"}
                                  THEN r.val ELSE @]
    /\ UNCHANGED <<items, userItems, currentId, last, portfolios, pCurrentId, pout, alr, services, call>>

MnyConstruct == \E n \in AmountInputs, c \in CurrencyInputs :
                    MnyStep("new", MoneyNew(n, 10, c), <<n, 10>>)
MnyAdd == MnyStep("add", MoneyAdd(mny.cur, mny.x), <<0, 1>>)
MnySubtract == MnyStep("subtract", MoneySubtract(mny.cur, mny.x), <<0, 1>>)
MnyMultiply == \E f \in FactorInputs : MnyStep("multiply", MoneyMultiply(mny.cur, f[1], f[2]), f)
MnyDivide == \E k \in DivisorInputs : MnyStep("divide", MoneyDivide(mny.cur, k), <<k, 1>>)
MnyIsGreaterThan == MnyStep("isGreaterThan", MoneyIsGreaterThan(mny.cur, mny.x), <<0, 1>>)
MnyIsLessThan == MnyStep("isLessThan", MoneyIsLessThan(mny.cur, mny.x), <<0, 1>>)

NextMoney ==
    \/ MnyConstruct
    \/ MnyAdd
    \/ MnySubtract
    \/ MnyMultiply
    \/ MnyDivide
    \/ MnyIsGreaterThan
    \/ MnyIsLessThan

SpecMoney == InitMoney /\ [][NextMoney]_vars

MnyLastOp == IF mny.ops = <<>> THEN "none" ELSE mny.ops[Len(mny.ops)]

\* C7: for Money m and x of one currency, m.add(x).subtract(x) succeeds and
\* equals m.
C7_AddSubtractRoundTrip ==
    (mny.ops = <<"add", "subtract">> /\ mny.m0.currency = mny.x.currency)
        => (mny.res.ok /\ MoneyEquals(mny.res.val, mny.m0))

C7_Witness ==
    /\ mny.ops = <<"add", "subtract">>
    /\ mny.m0.currency = mny.x.currency
    /\ mny.x.amount > 0 /\ mny.m0.amount = 0
    /\ mny.res.ok

\* C8: every Money value has a non-negative whole number of cents; the
\* constructor rejects a negative amount with 'Money amount cannot be
\* negative', and subtract rejects a negative difference with 'Cannot
\* subtract to negative amount'.
C8_MoneyNonNegative ==
    /\ mny.cur.amount \in Nat
    /\ mny.x.amount \in Nat
    /\ (MnyLastOp \in {"new", "add", "subtract", "multiply", "divide"} /\ mny.res.ok)
          => mny.res.val.amount \in Nat
    /\ (MnyLastOp = "new" /\ mny.arg[1] < 0)
          => (~mny.res.ok /\ mny.res.err = "Money amount cannot be negative")
    /\ (MnyLastOp = "subtract" /\ mny.pre.currency = mny.x.currency
                                /\ mny.pre.amount < mny.x.amount)
          => (~mny.res.ok /\ mny.res.err = "Cannot subtract to negative amount")

C8_Witness ==
    /\ MnyLastOp = "subtract"
    /\ mny.pre.currency = mny.x.currency
    /\ mny.pre.amount < mny.x.amount
    /\ ~mny.res.ok

\* C9: add, subtract, isGreaterThan and isLessThan on two Money values of
\* different currency codes fail with 'Currency mismatch' and leave no result.
C9_CurrencyMismatch ==
    (MnyLastOp \in {"add", "subtract", "isGreaterThan", "isLessThan"}
        /\ mny.pre.currency # mny.x.currency)
      => (~mny.res.ok /\ mny.res.err = "Currency mismatch" /\ mny.cur = mny.pre)

C9_Witness ==
    /\ MnyLastOp = "isLessThan"
    /\ mny.pre.currency # mny.x.currency
    /\ ~mny.res.ok

(***************************************************************************)
(* Portfolio entity: PortfolioData drawn from the inputs below, then       *)
(* new Portfolio(data) and the queries on the constructed entity.          *)
(***************************************************************************)
MaxPositions == 5

\* amounts in cents
TotalValueInputs == {NumStr(0, 1), NumStr(10000, 1), NumStr(100000, 1)}
DailyPnLInputs == {NumStr(-500, 1), NumStr(0, 1), NumStr(990, 1), NumStr(1960, 1),
                   NumStr(2500, 1), NumStr(10000, 1), NumStr(15000, 1), JunkStr}
\* success rates in hundredths of a percent: '59.99', '60', '70', '80', '85.5',
\* '100', '100.004', '100.01', '-0.004', '-1'
SuccessRateInputs == {NumStr(5999, 1), NumStr(6000, 1), NumStr(7000, 1), NumStr(8000, 1),
                      NumStr(8550, 1), NumStr(10000, 1), NumStr(100004, 10),
                      NumStr(10001, 1), NumStr(-4, 10), NumStr(-100, 1)}
PositionInputs == (-1)..MaxPositions
PortfolioInputs ==
    [id : {0, 1}, userId : {1}, totalValue : TotalValueInputs, dailyPnL : DailyPnLInputs,
     successRate : SuccessRateInputs, activePositions : PositionInputs]
      \cup
    [id : {1}, userId : {0}, totalValue : {NumStr(10000, 1)}, dailyPnL : {NumStr(0, 1)},
     successRate : {NumStr(8000, 1)}, activePositions : {MaxPositions}]

InitPortfolio ==
    /\ \E data \in PortfolioInputs : pout = [op |-> "input", data |-> data]
    /\ items = <<>> /\ userItems = <<>> /\ currentId = 1
    /\ last = [op |-> "none"]
    /\ portfolios = <<>> /\ pCurrentId = 1
    /\ mny = [ops |-> <<>>] /\ alr = [op |-> "none"]
    /\ services = RegisteredServices
    /\ call = [op |-> "none"]

PUnchanged == UNCHANGED <<items, userItems, currentId, last, mny, portfolios, pCurrentId, alr, services, call>>

PtfConstruct ==
    /\ pout.op = "input"
    /\ pout' = [op |-> "construct", data |-> pout.data, res |-> PortfolioNew(pout.data)]
    /\ PUnchanged

PtfGetPerformanceStatus ==
    /\ pout.op = "construct" /\ pout.res.ok
    /\ pout' = [op |-> "status", data |-> pout.data, res |-> pout.res,
                out |-> getPerformanceStatus(pout.res.val)]
    /\ PUnchanged

PtfIsDiversified ==
    /\ pout.op = "construct" /\ pout.res.ok
    /\ pout' = [op |-> "diversified", data |-> pout.data, res |-> pout.res,
                out |-> Ok(isDiversified(pout.res.val))]
    /\ PUnchanged

NextPortfolio ==
    \/ PtfConstruct
    \/ PtfGetPerformanceStatus
    \/ PtfIsDiversified

SpecPortfolio == InitPortfolio /\ [][NextPortfolio]_vars

\* the status the cascade of thresholds gives for a daily return dr and a
\* success rate sr, both in hundredths of a percent
StatusOf(dr, sr) ==
    IF dr >= 200 /\ sr >= 8000 THEN "excellent"
    ELSE IF dr >= 100 /\ sr >= 7000 THEN "good"
    ELSE IF dr >= 0 /\ sr >= 6000 THEN "average"
    ELSE "poor"

\* dailyPnL / (totalValue - dailyPnL) as a percentage rounded to 2 decimals, in
\* hundredths; 0 when totalValue or the previous value is 0
DailyReturnOf(tv, pnl) ==
    IF tv = 0 \/ tv - pnl = 0 THEN 0
    ELSE IF tv - pnl > 0 THEN RoundScaled(pnl, tv - pnl, 4)
    ELSE 0 - RoundScaled(pnl, pnl - tv, 4)

\* C3: getPerformanceStatus returns the status of the threshold cascade on
\* (dailyReturn, successRate) for every Portfolio.
C3_PerformanceStatus ==
    pout.op = "status" =>
        /\ pout.out.ok
        /\ pout.out.val = StatusOf(DailyReturnOf(pout.res.val.totalValue.amount,
                                                 pout.res.val.dailyPnL.amount),
                                   pout.res.val.successRate.value)

\* C10 (as stated): a constructed Portfolio has successRate in [0,100] and
\* activePositions >= 0, and data outside either bound does not construct.
C10_Original ==
    pout.op = "construct" =>
        /\ pout.res.ok => /\ pout.res.val.successRate.value \in 0..10000
                          /\ pout.res.val.activePositions >= 0
        /\ (pout.data.successRate.kind = "num"
              /\ (\/ pout.data.successRate.n < 0
                  \/ pout.data.successRate.n > 10000 * pout.data.successRate.d
                  \/ pout.data.activePositions < 0))
            => ~pout.res.ok

\* C10 (amended): a constructed Portfolio has successRate in [0,100] and
\* activePositions >= 0, and data whose activePositions is negative or whose
\* success rate, once rounded to 2 decimals, is outside [0,100] does not
\* construct.
C10_PortfolioBounds ==
    pout.op = "construct" =>
        /\ pout.res.ok => /\ pout.res.val.successRate.value \in 0..10000
                          /\ pout.res.val.activePositions >= 0
        /\ (pout.data.successRate.kind = "num"
              /\ (\/ MathRound(pout.data.successRate.n, pout.data.successRate.d) < 0
                  \/ MathRound(pout.data.successRate.n, pout.data.successRate.d) > 10000
                  \/ pout.data.activePositions < 0))
            => ~pout.res.ok

C10_Witness ==
    /\ pout.op = "construct"
    /\ pout.data.successRate = NumStr(10001, 1)
    /\ pout.data.id = 1 /\ pout.data.activePositions = 0
    /\ pout.data.dailyPnL = NumStr(0, 1)
    /\ ~pout.res.ok /\ pout.res.err = "Success rate must be between 0 and 100"

(***************************************************************************)
(* MemoryPortfolioRepository and GetPortfolioUseCase                       *)
(***************************************************************************)
MaxPortfolioId == 2

\* initializeSampleData: the three sample portfolios, amounts in cents
SamplePortfolios ==
    (1 :> [id |-> 1, userId |-> 1, totalValue |-> NumStr(124789375, 1),
           dailyPnL |-> NumStr(843250, 1), successRate |-> NumStr(8240, 1),
           activePositions |-> 28])
    @@ (2 :> [id |-> 2, userId |-> 2, totalValue |-> NumStr(56723420, 1),
              dailyPnL |-> NumStr(-234180, 1), successRate |-> NumStr(7420, 1),
              activePositions |-> 15])
    @@ (3 :> [id |-> 3, userId |-> 3, totalValue |-> NumStr(215678945, 1),
              dailyPnL |-> NumStr(1567890, 1), successRate |-> NumStr(8960, 1),
              activePositions |-> 42])

PortfolioGetByUserId(userId) ==
    IF userId \in DOMAIN portfolios THEN portfolios[userId] ELSE Null

mapToDto(portfolio) ==
    LET averagePositionValue == getAveragePositionValue(portfolio)
        performanceStatus == getPerformanceStatus(portfolio)
    IN  IF ~averagePositionValue.ok THEN averagePositionValue
        ELSE IF ~performanceStatus.ok THEN performanceStatus
        ELSE Ok([id |-> portfolio.id, userId |-> portfolio.userId,
                 totalValue |-> portfolio.totalValue.amount,
                 dailyPnL |-> portfolio.dailyPnL.amount,
                 successRate |-> portfolio.successRate.value,
                 activePositions |-> portfolio.activePositions,
                 performanceStatus |-> performanceStatus.val,
                 isDiversified |-> isDiversified(portfolio),
                 averagePositionValue |-> averagePositionValue.val.amount])

GetPortfolioExecute(userId) ==
    LET portfolioData == PortfolioGetByUserId(userId)
    IN  IF portfolioData = Null THEN Ok(Null)
        ELSE LET portfolio == PortfolioNew(portfolioData)
             IN  IF ~portfolio.ok THEN Wrap("Failed to get portfolio", portfolio)
                 ELSE LET dto == mapToDto(portfolio.val)
                      IN  IF ~dto.ok THEN Wrap("Failed to get portfolio", dto) ELSE dto

\* what callers pass to the repository
PortfolioUserIds == {1, 2, 3, 4}
PortfolioCreateInputs ==
    [userId : {4}, totalValue : {NumStr(10000, 1)}, dailyPnL : {NumStr(0, 1), NumStr(15000, 1)},
     successRate : {NumStr(8000, 1)}, activePositions : {5}]
PortfolioUpdateInputs ==
    {[dailyPnL |-> NumStr(0, 1)], [userId |-> 2]}

InitPortfolioRepo ==
    /\ portfolios = SamplePortfolios
    /\ pCurrentId = 1
    /\ pout = [op |-> "none"]
    /\ items = <<>> /\ userItems = <<>> /\ currentId = 1
    /\ last = [op |-> "none"]
    /\ mny = [ops |-> <<>>] /\ alr = [op |-> "none"]
    /\ services = RegisteredServices
    /\ call = [op |-> "none"]

PRepoUnchanged == UNCHANGED <<items, userItems, currentId, last, mny, alr, services, call>>

PortfolioRepoCreate ==
    \E portfolio \in PortfolioCreateInputs :
        /\ pCurrentId <= MaxPortfolioId
        /\ portfolios' = [u \in DOMAIN portfolios \cup {portfolio.userId} |->
                            IF u = portfolio.userId
                            THEN Spread(portfolio, [id |-> pCurrentId])
                            ELSE portfolios[u]]
        /\ pCurrentId' = pCurrentId + 1
        /\ pout' = [op |-> "create", userId |-> portfolio.userId, res |-> Ok(pCurrentId)]
        /\ PRepoUnchanged

PortfolioRepoUpdate ==
    \E userId \in PortfolioUserIds, portfolio \in PortfolioUpdateInputs :
        /\ IF userId \notin DOMAIN portfolios
           THEN /\ pout' = [op |-> "update", userId |-> userId, res |-> Err("Portfolio not found for user")]
                /\ UNCHANGED portfolios
           ELSE /\ portfolios' = [portfolios EXCEPT ![userId] = Spread(@, portfolio)]
                /\ pout' = [op |-> "update", userId |-> userId, res |-> Ok(userId)]
        /\ UNCHANGED pCurrentId
        /\ PRepoUnchanged

PortfolioRepoDelete ==
    \E userId \in PortfolioUserIds :
        /\ portfolios' = [u \in DOMAIN portfolios \ {userId} |-> portfolios[u]]
        /\ pout' = [op |-> "delete", userId |-> userId, res |-> Ok(userId)]
        /\ UNCHANGED pCurrentId
        /\ PRepoUnchanged

PortfolioExecute ==
    \E userId \in PortfolioUserIds :
        /\ pout' = [op |-> "execute", userId |-> userId, res |-> GetPortfolioExecute(userId)]
        /\ UNCHANGED <<portfolios, pCurrentId>>
        /\ PRepoUnchanged

NextPortfolioRepo ==
    \/ PortfolioRepoCreate
    \/ PortfolioRepoUpdate
    \/ PortfolioRepoDelete
    \/ PortfolioExecute

SpecPortfolioRepo == InitPortfolioRepo /\ [][NextPortfolioRepo]_vars

\* C4: execute(userId) returns a DTO carrying that userId for every user with a
\* portfolio record, the seeded sample users included, and null exactly when
\* the user has no record.
C4_ExecuteReturnsDto ==
    pout.op = "execute" =>
        /\ pout.res.ok
        /\ (pout.userId \in DOMAIN portfolios) =>
              (pout.res.val # Null /\ pout.res.val.userId = pout.userId)
        /\ (pout.userId \notin DOMAIN portfolios) => pout.res.val = Null

(***************************************************************************)
(* WatchlistService.checkAlerts on a watchlist of one or two items and a   *)
(* market of up to two stocks.                                             *)
(***************************************************************************)
MaxTarget == 32

AAPL == <<"A", "A", "P", "L">>
TSLA == <<"T", "S", "L", "A">>
NVDA == <<"N", "V", "D", "A">>
TOOLONG == <<"T", "O", "O", "L", "O", "N", "G">>

\* target prices in cents.  2% of a target ending in 25 or 75 cents is exactly
\* half a cent, where the rounding of the tolerance depends on the binary
\* representation of 0.02; those targets are left out.
TargetInputs == {t \in 0..MaxTarget : (2 * t) % 100 # 50} \cup {20000}
\* $201 and $210 against a $200 target, and the edges of its band
PriceInputs == (0..(MaxTarget + 2)) \cup {19599, 19600, 20100, 20400, 20401, 21000}

AlertItemInputs ==
    {[id |-> 1, userId |-> 1, symbol |-> AAPL, addedAt |-> 0, alertEnabled |-> e]
        : e \in BOOLEAN}
    \cup
    {[id |-> 1, userId |-> 1, symbol |-> AAPL, addedAt |-> 0, alertEnabled |-> e,
      targetPrice |-> NumStr(t, 1)] : e \in BOOLEAN, t \in TargetInputs}
    \cup
    {[id |-> 1, userId |-> 1, symbol |-> AAPL, addedAt |-> 0, alertEnabled |-> e,
      targetPrice |-> tp] : e \in BOOLEAN, tp \in {EmptyStr, JunkStr}}

\* a second item, target $2.00, on TSLA or on a symbol StockSymbol rejects
SecondItemInputs ==
    {[id |-> 2, userId |-> 1, symbol |-> sym, addedAt |-> 0, alertEnabled |-> TRUE,
      targetPrice |-> NumStr(200, 1)] : sym \in {TSLA, TOOLONG}}

StockDataOf(id, symbol, price) ==
    [id |-> id, symbol |-> symbol, name |-> symbol, price |-> NumStr(price, 1),
     change |-> NumStr(-1, 1), changePercent |-> NumStr(-50, 1), volume |-> 0]

AlertStockInputs ==
    {<<>>}
    \cup {<<StockNew(StockDataOf(1, AAPL, p)).val>> : p \in PriceInputs}
    \cup {<<StockNew(StockDataOf(1, AAPL, p)).val, StockNew(StockDataOf(2, TSLA, q)).val>>
            : p \in PriceInputs, q \in {199, 210}}

InitAlerts ==
    /\ \E first \in AlertItemInputs, stocks \in AlertStockInputs :
         \E watchlist \in {<<first>>} \cup {<<first, second>> : second \in SecondItemInputs} :
            /\ \A i \in 1..Len(watchlist) : WatchlistItemNew(watchlist[i]).ok
            /\ alr = [op |-> "input", watchlistItems |-> watchlist, currentStocks |-> stocks]
    /\ items = <<>> /\ userItems = <<>> /\ currentId = 1
    /\ last = [op |-> "none"]
    /\ portfolios = <<>> /\ pCurrentId = 1 /\ pout = [op |-> "none"]
    /\ mny = [ops |-> <<>>]
    /\ services = RegisteredServices
    /\ call = [op |-> "none"]

AlrCheckAlerts ==
    /\ alr.op = "input"
    /\ alr' = [op |-> "checkAlerts", watchlistItems |-> alr.watchlistItems,
               currentStocks |-> alr.currentStocks,
               res |-> checkAlerts(alr.watchlistItems, alr.currentStocks)]
    /\ UNCHANGED <<items, userItems, currentId, last, mny, portfolios, pCurrentId, pout, services, call>>

NextAlerts ==
    \/ AlrCheckAlerts

SpecAlerts == InitAlerts /\ [][NextAlerts]_vars

\* the alert type the 2% band gives for a price and a target in cents:
\* strictly above target + 2%, strictly below target - 2%, or none
BandAlertType(price, target) ==
    IF 100 * price > 102 * target THEN "above_target"
    ELSE IF 100 * price < 98 * target THEN "below_target"
    ELSE "none"

\* the first stock of the market carrying the symbol, Null if there is none
MarketStock(symbol, stocks) ==
    IF \E i \in 1..Len(stocks) : stocks[i].symbol.value = symbol
    THEN stocks[CHOOSE i \in 1..Len(stocks) : stocks[i].symbol.value = symbol]
    ELSE Null

\* the alert type the claim gives item i of the checked watchlist
ClaimedAlertType(item, stocks) ==
    IF ~item.alertEnabled THEN "none"
    ELSE IF "targetPrice" \notin DOMAIN item THEN "none"
    ELSE IF item.targetPrice.kind # "num" THEN "none"
    ELSE IF MarketStock(item.symbol, stocks) = Null THEN "none"
    ELSE BandAlertType(MarketStock(item.symbol, stocks).price.amount, item.targetPrice.n)

\* C2: checkAlerts emits an alert for an item exactly when the item has alerts
\* enabled, a target price and a stock of its symbol whose price lies strictly
\* outside target +/- 2% of target, typed above_target or below_target by the
\* side; a price inside or on the band gives no alert.
C2_AlertBand ==
    (alr.op = "checkAlerts" /\ alr.res.ok) =>
        \A i \in 1..Len(alr.watchlistItems) :
            LET item == alr.watchlistItems[i]
                type == ClaimedAlertType(item, alr.currentStocks)
                emitted == {a \in 1..Len(alr.res.val) : alr.res.val[a].watchlistItem = item.id}
            IN  /\ (type = "none") <=> (emitted = {})
                /\ \A a \in emitted : alr.res.val[a].alertType = type

(***************************************************************************)
(* MemoryWatchlistRepository                                               *)
(***************************************************************************)
\* new Date() / Date.now(), in days; the sample items are dated before it
Now == 0

\* initializeSampleData
SampleItems ==
    (1 :> [id |-> 1, userId |-> 1, symbol |-> AAPL, addedAt |-> Now - 7,
           notes |-> <<"S", "t", "r", "o", "n", "g", " ", "f", "u", "n", "d", "a", "m",
                "e", "n", "t", "a", "l", "s", ",", " ", "w", "a",
                "i", "t", "i", "n", "g", " ", "f", "o", "r", " ",
                "d", "i", "p">>,
           targetPrice |-> NumStr(20000, 1), alertEnabled |-> TRUE])
    @@ (2 :> [id |-> 2, userId |-> 1, symbol |-> TSLA, addedAt |-> Now - 3,
              notes |-> <<"W", "a", "t", "c", "h", "i", "n", "g", " ", "f", "o", "r", " ",
                "e", "a", "r", "n", "i", "n", "g", "s", " ", "a",
                "n", "n", "o", "u", "n", "c", "e", "m", "e", "n",
                "t">>,
              alertEnabled |-> FALSE])
    @@ (3 :> [id |-> 3, userId |-> 1, symbol |-> NVDA, addedAt |-> Now - 1,
              notes |-> <<"A", "I", " ", "g", "r", "o", "w", "t", "h", " ", "p", "o", "t",
                "e", "n", "t", "i", "a", "l">>,
              targetPrice |-> NumStr(90000, 1), alertEnabled |-> TRUE])

SampleUserItems == (1 :> <<1, 2, 3>>)

\* this.userItems.get(userId) || []
UserItemIds(userId) == IF userId \in DOMAIN userItems THEN userItems[userId] ELSE <<>>

\* itemIds.map(id => this.items.get(id)!).filter(Boolean)
RECURSIVE ItemsOf(_)
ItemsOf(ids) ==
    IF ids = <<>> THEN <<>>
    ELSE (IF Head(ids) \in DOMAIN items THEN <<items[Head(ids)]>> ELSE <<>>) \o ItemsOf(Tail(ids))

WatchlistGetByUserId(userId) == ItemsOf(UserItemIds(userId))

WatchlistGetById(id) == IF id \in DOMAIN items THEN items[id] ELSE Null

\* mutant: the stored and the requested symbol are compared as they are
WatchlistGetByUserIdAndSymbol_CaseSensitive(userId, dto) ==
    LET stored == WatchlistGetByUserId(userId)
    IN  IF stored = <<>> THEN Ok(Null)
        ELSE IF "symbol" \notin DOMAIN dto THEN Err("TypeError")
        ELSE IF \E i \in 1..Len(stored) : stored[i].symbol = dto.symbol
        THEN Ok(stored[CHOOSE i \in 1..Len(stored) : stored[i].symbol = dto.symbol])
        ELSE Ok(Null)

\* the symbols are compared after toUpperCase; a dto without symbol makes
\* symbol.toUpperCase() throw a TypeError at the first stored item
WatchlistGetByUserIdAndSymbol(userId, dto) ==
    LET stored == WatchlistGetByUserId(userId)
    IN  IF stored = <<>> THEN Ok(Null)
        ELSE IF "symbol" \notin DOMAIN dto THEN Err("TypeError")
        ELSE IF \E i \in 1..Len(stored) :
                    ToUpperCase(stored[i].symbol) = ToUpperCase(dto.symbol)
        THEN Ok(stored[CHOOSE i \in 1..Len(stored) :
                    /\ ToUpperCase(stored[i].symbol) = ToUpperCase(dto.symbol)
                    /\ \A j \in 1..(i - 1) :
                          ToUpperCase(stored[j].symbol) # ToUpperCase(dto.symbol)])
        ELSE Ok(Null)

\* the three maps after create(itemData): <<items, userItems, currentId>>
WatchlistCreate(itemData) ==
    LET newItem == Spread(itemData, [id |-> currentId])
    IN  [item |-> newItem,
         items |-> [i \in DOMAIN items \cup {newItem.id} |->
                        IF i = newItem.id THEN newItem ELSE items[i]],
         userItems |-> [u \in DOMAIN userItems \cup {itemData.userId} |->
                        IF u = itemData.userId
                        THEN Append(UserItemIds(itemData.userId), newItem.id)
                        ELSE userItems[u]],
         currentId |-> currentId + 1]

\* the items map after update(id, updateData), for a stored id
WatchlistUpdate(id, updateData) ==
    LET updated == Spread(items[id], updateData)
    IN  [item |-> updated, items |-> [items EXCEPT ![id] = updated]]

\* mutant: delete(id) takes the id off the user's list but keeps the record
WatchlistDelete_KeepsRecord(id) ==
    LET item == items[id]
        filteredIds == SelectSeq(UserItemIds(item.userId), LAMBDA itemId : itemId # id)
    IN  [items |-> items,
         userItems |-> [u \in DOMAIN userItems \cup {item.userId} |->
                        IF u = item.userId THEN filteredIds ELSE userItems[u]]]

\* the maps after delete(id), for a stored id
WatchlistDelete(id) ==
    LET item == items[id]
        filteredIds == SelectSeq(UserItemIds(item.userId), LAMBDA itemId : itemId # id)
    IN  [items |-> [i \in DOMAIN items \ {id} |-> items[i]],
         userItems |-> [u \in DOMAIN userItems \cup {item.userId} |->
                        IF u = item.userId THEN filteredIds ELSE userItems[u]]]

(***************************************************************************)
(* ManageWatchlistUseCase                                                  *)
(***************************************************************************)
ItemNotes(item) == IF "notes" \in DOMAIN item THEN item.notes ELSE <<>>

Abs(n) == IF n < 0 THEN 0 - n ELSE n

mapItemToDto(item) ==
    LET symbol == ItemSymbol(item)
        targetPrice == ItemTargetPrice(item)
    IN  IF ~symbol.ok THEN symbol
        ELSE IF ~targetPrice.ok THEN targetPrice
        ELSE Ok([id |-> item.id, symbol |-> symbol.val.value, addedAt |-> item.addedAt,
                 notes |-> ItemNotes(item),
                 targetPrice |-> targetPrice.val,
                 alertEnabled |-> item.alertEnabled,
                 daysSinceAdded |-> Abs(Now - item.addedAt),
                 hasTargetPrice |-> targetPrice.val # Null,
                 hasNotes |-> Len(Trim(ItemNotes(item))) > 0])

\* new WatchlistItem(data) followed by mapItemToDto, as the use case returns it
ItemDtoOf(data) ==
    LET watchlistItem == WatchlistItemNew(data)
    IN  IF ~watchlistItem.ok THEN watchlistItem ELSE mapItemToDto(watchlistItem.val)

\* the data addToWatchlist passes to create
NewItemData(userId, createDto) ==
    Spread([userId |-> userId,
            symbol |-> ToUpperCase(createDto.symbol),
            notes |-> IF "notes" \in DOMAIN createDto THEN createDto.notes ELSE <<>>,
            alertEnabled |-> IF "alertEnabled" \in DOMAIN createDto
                             THEN createDto.alertEnabled ELSE FALSE,
            addedAt |-> Now],
           IF "targetPrice" \in DOMAIN createDto
           THEN [targetPrice |-> createDto.targetPrice] ELSE <<>>)


(***************************************************************************)
(* The watchlist: the seeded repository driven by calls of                 *)
(* addToWatchlist, updateWatchlistItem and removeFromWatchlist.            *)
(***************************************************************************)
MaxWatchlistId == 4

MSFT == <<"M", "S", "F", "T">>

UserIds == {1, 2}
\* a seeded item, the first created item, and an id never issued
ItemIds == {1, 4, 9}
\* request bodies: a symbol already watched by user 1 in lower case, a new
\* symbol, a symbol StockSymbol rejects, a negative target price, no symbol
CreateDtos ==
    {[symbol |-> <<"a", "a", "p", "l">>],
     [symbol |-> MSFT, alertEnabled |-> TRUE, targetPrice |-> NumStr(41000, 1)],
     [symbol |-> TOOLONG],
     [symbol |-> MSFT, targetPrice |-> NumStr(-500, 1)],
     [notes |-> <<"x">>]}
UpdateDtos ==
    {[notes |-> <<"x">>, alertEnabled |-> FALSE],
     [targetPrice |-> NumStr(-500, 1)]}

Init ==
    /\ items = SampleItems
    /\ userItems = SampleUserItems
    /\ currentId = 4
    /\ last = [op |-> "none"]
    /\ portfolios = <<>> /\ pCurrentId = 1 /\ pout = [op |-> "none"]
    /\ mny = [ops |-> <<>>] /\ alr = [op |-> "none"]
    /\ services = RegisteredServices
    /\ call = [op |-> "none"]

WlUnchanged == UNCHANGED <<mny, portfolios, pCurrentId, pout, alr, services, call>>

\* what a call leaves behind: its outcome and the repository after it
Outcome(res, its, uits, cid) ==
    [res |-> res, items |-> its, userItems |-> uits, currentId |-> cid]

addToWatchlist(userId, createDto) ==
    LET existing == WatchlistGetByUserIdAndSymbol(userId, createDto)
        Fail(r) == Outcome(Wrap("Failed to add to watchlist", r), items, userItems, currentId)
    IN  IF ~existing.ok THEN Fail(existing)
        ELSE IF existing.val # Null THEN Fail(Err("Stock already in watchlist"))
        ELSE IF "symbol" \notin DOMAIN createDto THEN Fail(Err("TypeError"))
        ELSE LET created == WatchlistCreate(NewItemData(userId, createDto))
                 dto == ItemDtoOf(created.item)
             IN  Outcome(IF dto.ok THEN dto ELSE Wrap("Failed to add to watchlist", dto),
                         created.items, created.userItems, created.currentId)

updateWatchlistItem(userId, itemId, updateDto) ==
    LET existingData == WatchlistGetById(itemId)
    IN  IF existingData = Null \/ existingData.userId # userId
        THEN Outcome(Wrap("Failed to update watchlist item", Err("Watchlist item not found")),
                     items, userItems, currentId)
        ELSE LET updated == WatchlistUpdate(itemId, updateDto)
                 dto == ItemDtoOf(updated.item)
             IN  Outcome(IF dto.ok THEN dto ELSE Wrap("Failed to update watchlist item", dto),
                         updated.items, userItems, currentId)

removeFromWatchlist(userId, itemId) ==
    LET existingData == WatchlistGetById(itemId)
    IN  IF existingData = Null \/ existingData.userId # userId
        THEN Outcome(Wrap("Failed to remove from watchlist", Err("Watchlist item not found")),
                     items, userItems, currentId)
        ELSE LET deleted == WatchlistDelete(itemId)
             IN  Outcome(Ok(Null), deleted.items, deleted.userItems, currentId)

\* the repository after a call; ids are issued up to MaxWatchlistId
Becomes(out) ==
    /\ out.currentId <= MaxWatchlistId + 1
    /\ items' = out.items
    /\ userItems' = out.userItems
    /\ currentId' = out.currentId

AddToWatchlist(userId, createDto) ==
    LET out == addToWatchlist(userId, createDto)
    IN  /\ Becomes(out)
        /\ last' = [op |-> "add", userId |-> userId, dto |-> createDto, res |-> out.res]
        /\ WlUnchanged

UpdateWatchlistItem(userId, itemId, updateDto) ==
    LET out == updateWatchlistItem(userId, itemId, updateDto)
    IN  /\ Becomes(out)
        /\ last' = [op |-> "update", userId |-> userId, itemId |-> itemId,
                    dto |-> updateDto, res |-> out.res]
        /\ WlUnchanged

RemoveFromWatchlist(userId, itemId) ==
    LET out == removeFromWatchlist(userId, itemId)
    IN  /\ Becomes(out)
        /\ last' = [op |-> "remove", userId |-> userId, itemId |-> itemId, res |-> out.res]
        /\ WlUnchanged

Add == \E userId \in UserIds, createDto \in CreateDtos : AddToWatchlist(userId, createDto)
Update == \E userId \in UserIds, itemId \in ItemIds, updateDto \in UpdateDtos :
              UpdateWatchlistItem(userId, itemId, updateDto)
Remove == \E userId \in UserIds, itemId \in ItemIds : RemoveFromWatchlist(userId, itemId)

Next ==
    \/ Add
    \/ Update
    \/ Remove

Spec == Init /\ [][Next]_vars

\* the user's watchlist holds an item with this symbol, letter case ignored
Watches(userId, symbol) ==
    \E i \in 1..Len(WatchlistGetByUserId(userId)) :
        ToUpperCase(WatchlistGetByUserId(userId)[i].symbol) = ToUpperCase(symbol)

\* C1: addToWatchlist for a symbol the user's watchlist already holds, letter
\* case ignored, fails with 'Stock already in watchlist' and creates no item.
C1_DuplicateRejected ==
    [][(/\ last'.op = "add"
        /\ "symbol" \in DOMAIN last'.dto
        /\ Watches(last'.userId, last'.dto.symbol))
          => /\ ~last'.res.ok
             /\ last'.res.err = "Stock already in watchlist"
             /\ items' = items /\ userItems' = userItems /\ currentId' = currentId]_vars

C1_Witness ==
    /\ last.op = "add"
    /\ last.userId = 1
    /\ last.dto = [symbol |-> <<"a", "a", "p", "l">>]
    /\ ~last.res.ok /\ last.res.err = "Stock already in watchlist"
    /\ 1 \in DOMAIN items /\ items[1].symbol = AAPL

\* C5: a call of addToWatchlist, updateWatchlistItem or removeFromWatchlist
\* that ends in an error leaves the repository as it was before the call.
C5_AllOrNothing ==
    [][(last'.op \in {"add", "update", "remove"} /\ ~last'.res.ok)
          => (items' = items /\ userItems' = userItems)]_vars

(***************************************************************************)
(* MemoryStockRepository and GetMarketDataUseCase                          *)
(***************************************************************************)
SampleStocks == <<
    [id |-> 1, symbol |-> <<"A", "A", "P", "L">>, name |-> <<"A", "p", "p", "l", "e", " ", "I", "n", "c", ".">>,
     price |-> NumStr(18975, 1), change |-> NumStr(542, 1), changePercent |-> NumStr(295, 1),
     volume |-> 52300000],
    [id |-> 2, symbol |-> <<"M", "S", "F", "T">>, name |-> <<"M", "i", "c", "r", "o", "s", "o", "f", "t", " ", "C", "o", "r", "p", ".">>,
     price |-> NumStr(41285, 1), change |-> NumStr(815, 1), changePercent |-> NumStr(201, 1),
     volume |-> 28900000],
    [id |-> 3, symbol |-> <<"G", "O", "O", "G", "L">>, name |-> <<"A", "l", "p", "h", "a", "b", "e", "t", " ", "I", "n", "c", ".">>,
     price |-> NumStr(14265, 1), change |-> NumStr(328, 1), changePercent |-> NumStr(235, 1),
     volume |-> 31200000],
    [id |-> 4, symbol |-> <<"A", "M", "Z", "N">>, name |-> <<"A", "m", "a", "z", "o", "n", ".", "c", "o", "m", " ", "I", "n", "c", ".">>,
     price |-> NumStr(16892, 1), change |-> NumStr(645, 1), changePercent |-> NumStr(397, 1),
     volume |-> 41500000],
    [id |-> 5, symbol |-> <<"T", "S", "L", "A">>, name |-> <<"T", "e", "s", "l", "a", " ", "I", "n", "c", ".">>,
     price |-> NumStr(25182, 1), change |-> NumStr(-423, 1), changePercent |-> NumStr(-165, 1),
     volume |-> 89600000],
    [id |-> 6, symbol |-> <<"N", "V", "D", "A">>, name |-> <<"N", "V", "I", "D", "I", "A", " ", "C", "o", "r", "p", ".">>,
     price |-> NumStr(87542, 1), change |-> NumStr(2875, 1), changePercent |-> NumStr(340, 1),
     volume |-> 45800000],
    [id |-> 7, symbol |-> <<"M", "E", "T", "A">>, name |-> <<"M", "e", "t", "a", " ", "P", "l", "a", "t", "f", "o", "r", "m", "s", " ", "I", "n", "c", ".">>,
     price |-> NumStr(48523, 1), change |-> NumStr(1289, 1), changePercent |-> NumStr(273, 1),
     volume |-> 19400000],
    [id |-> 8, symbol |-> <<"N", "F", "L", "X">>, name |-> <<"N", "e", "t", "f", "l", "i", "x", " ", "I", "n", "c", ".">>,
     price |-> NumStr(61245, 1), change |-> NumStr(-892, 1), changePercent |-> NumStr(-144, 1),
     volume |-> 8900000],
    [id |-> 9, symbol |-> <<"A", "M", "D">>, name |-> <<"A", "d", "v", "a", "n", "c", "e", "d", " ", "M", "i", "c", "r", "o", " ", "D", "e", "v", "i", "c", "e", "s">>,
     price |-> NumStr(14278, 1), change |-> NumStr(456, 1), changePercent |-> NumStr(330, 1),
     volume |-> 67200000],
    [id |-> 10, symbol |-> <<"C", "R", "M">>, name |-> <<"S", "a", "l", "e", "s", "f", "o", "r", "c", "e", " ", "I", "n", "c", ".">>,
     price |-> NumStr(28934, 1), change |-> NumStr(723, 1), changePercent |-> NumStr(256, 1),
     volume |-> 12300000],
    [id |-> 11, symbol |-> <<"O", "R", "C", "L">>, name |-> <<"O", "r", "a", "c", "l", "e", " ", "C", "o", "r", "p", ".">>,
     price |-> NumStr(11867, 1), change |-> NumStr(245, 1), changePercent |-> NumStr(211, 1),
     volume |-> 15600000],
    [id |-> 12, symbol |-> <<"A", "D", "B", "E">>, name |-> <<"A", "d", "o", "b", "e", " ", "I", "n", "c", ".">>,
     price |-> NumStr(56789, 1), change |-> NumStr(-345, 1), changePercent |-> NumStr(-60, 1),
     volume |-> 7800000] >>

StockGetAll == SampleStocks

\* this.stocks.get(symbol.toUpperCase()) || null
StockGetBySymbol(symbol) ==
    IF \E i \in 1..Len(SampleStocks) : SampleStocks[i].symbol = ToUpperCase(symbol)
    THEN SampleStocks[CHOOSE i \in 1..Len(SampleStocks) :
                         SampleStocks[i].symbol = ToUpperCase(symbol)]
    ELSE Null

mapStockToDto(stock) ==
    [id |-> stock.id, symbol |-> stock.symbol.value, name |-> stock.name,
     price |-> stock.price.amount, change |-> stock.change.amount,
     changePercent |-> stock.changePercent.value, volume |-> stock.volume]

\* the first element a constructor rejects ends the map with its error
FirstError(rs) ==
    IF \E i \in 1..Len(rs) : ~rs[i].ok
    THEN rs[CHOOSE i \in 1..Len(rs) : ~rs[i].ok /\ \A j \in 1..(i - 1) : rs[j].ok]
    ELSE Null

GetMarketDataExecute ==
    LET stocks == [i \in 1..Len(StockGetAll) |-> StockNew(StockGetAll[i])]
    IN  IF FirstError(stocks) # Null THEN Wrap("Failed to get market data", FirstError(stocks))
        ELSE Ok([i \in 1..Len(stocks) |-> mapStockToDto(stocks[i].val)])

GetMarketDataGetBySymbol(symbol) ==
    LET stockData == StockGetBySymbol(symbol)
    IN  IF stockData = Null THEN Ok(Null)
        ELSE LET stock == StockNew(stockData)
             IN  IF ~stock.ok THEN Wrap("Failed to get stock data", stock)
                 ELSE Ok(mapStockToDto(stock.val))

(***************************************************************************)
(* MemoryTransactionRepository, Transaction and GetTransactionsUseCase     *)
(***************************************************************************)
SampleTransactions == <<
    [id |-> 1, userId |-> 1, type |-> "buy", symbol |-> <<"A", "A", "P", "L">>, amount |-> NumStr(948750, 1),
     shares |-> <<50>>, timestamp |-> <<0 - 2>>],
    [id |-> 2, userId |-> 1, type |-> "sell", symbol |-> <<"T", "S", "L", "A">>, amount |-> NumStr(755460, 1),
     shares |-> <<30>>, timestamp |-> <<0 - 15>>],
    [id |-> 3, userId |-> 1, type |-> "dividend", symbol |-> <<"M", "S", "F", "T">>, amount |-> NumStr(41250, 1),
     shares |-> <<>>, timestamp |-> <<0 - 60>>],
    [id |-> 4, userId |-> 1, type |-> "buy", symbol |-> <<"N", "V", "D", "A">>, amount |-> NumStr(1750840, 1),
     shares |-> <<20>>, timestamp |-> <<0 - 120>>],
    [id |-> 5, userId |-> 1, type |-> "buy", symbol |-> <<"G", "O", "O", "G", "L">>, amount |-> NumStr(713300, 1),
     shares |-> <<50>>, timestamp |-> <<0 - 240>>],
    [id |-> 6, userId |-> 1, type |-> "sell", symbol |-> <<"M", "E", "T", "A">>, amount |-> NumStr(970460, 1),
     shares |-> <<20>>, timestamp |-> <<0 - 360>>],
    [id |-> 7, userId |-> 1, type |-> "dividend", symbol |-> <<"A", "A", "P", "L">>, amount |-> NumStr(12500, 1),
     shares |-> <<>>, timestamp |-> <<0 - 720>>],
    [id |-> 8, userId |-> 1, type |-> "buy", symbol |-> <<"A", "M", "D">>, amount |-> NumStr(713900, 1),
     shares |-> <<50>>, timestamp |-> <<0 - 1440>>],
    [id |-> 9, userId |-> 1, type |-> "buy", symbol |-> <<"C", "R", "M">>, amount |-> NumStr(868020, 1),
     shares |-> <<30>>, timestamp |-> <<0 - 2880>>],
    [id |-> 10, userId |-> 1, type |-> "sell", symbol |-> <<"N", "F", "L", "X">>, amount |-> NumStr(1224900, 1),
     shares |-> <<20>>, timestamp |-> <<0 - 4320>>],
    [id |-> 11, userId |-> 2, type |-> "buy", symbol |-> <<"M", "S", "F", "T">>, amount |-> NumStr(825700, 1),
     shares |-> <<20>>, timestamp |-> <<0 - 30>>],
    [id |-> 12, userId |-> 2, type |-> "sell", symbol |-> <<"A", "A", "P", "L">>, amount |-> NumStr(569250, 1),
     shares |-> <<30>>, timestamp |-> <<0 - 45>>],
    [id |-> 13, userId |-> 2, type |-> "dividend", symbol |-> <<"O", "R", "C", "L">>, amount |-> NumStr(8960, 1),
     shares |-> <<>>, timestamp |-> <<0 - 90>>],
    [id |-> 14, userId |-> 3, type |-> "buy", symbol |-> <<"N", "V", "D", "A">>, amount |-> NumStr(4377100, 1),
     shares |-> <<50>>, timestamp |-> <<0 - 10>>],
    [id |-> 15, userId |-> 3, type |-> "buy", symbol |-> <<"T", "S", "L", "A">>, amount |-> NumStr(2518200, 1),
     shares |-> <<100>>, timestamp |-> <<0 - 25>>],
    [id |-> 16, userId |-> 3, type |-> "dividend", symbol |-> <<"M", "S", "F", "T">>, amount |-> NumStr(125000, 1),
     shares |-> <<>>, timestamp |-> <<0 - 120>>] >>

TransactionGetByUserId(userId) ==
    SelectSeq(SampleTransactions, LAMBDA t : t.userId = userId)

\* mutant: validate() does not look at the shares
TransactionNew_NoSharesRule(data) ==
    LET symbol == StockSymbolNew(data.symbol)
        amount == IF data.amount.kind # "num" THEN Err("Invalid money string")
                  ELSE MoneyNew(Abs(data.amount.n), data.amount.d, USD)
    IN  IF data.type \notin {"buy", "sell", "dividend"} THEN Err("Invalid transaction type: " \o data.type)
        ELSE IF ~symbol.ok THEN symbol
        ELSE IF ~amount.ok THEN amount
        ELSE IF data.id <= 0 THEN Err("Transaction ID must be positive")
        ELSE IF data.userId <= 0 THEN Err("User ID must be positive")
        ELSE Ok([id |-> data.id, userId |-> data.userId, type |-> data.type,
                 symbol |-> symbol.val, amount |-> amount.val, shares |-> data.shares,
                 timestamp |-> data.timestamp])

TransactionNew(data) ==
    LET symbol == StockSymbolNew(data.symbol)
        \* Money.fromString(Math.abs(parseFloat(data.amount)).toString())
        amount == IF data.amount.kind # "num" THEN Err("Invalid money string")
                  ELSE MoneyNew(Abs(data.amount.n), data.amount.d, USD)
    IN  IF data.type \notin {"buy", "sell", "dividend"} THEN Err("Invalid transaction type: " \o data.type)
        ELSE IF ~symbol.ok THEN symbol
        ELSE IF ~amount.ok THEN amount
        ELSE IF data.id <= 0 THEN Err("Transaction ID must be positive")
        ELSE IF data.userId <= 0 THEN Err("User ID must be positive")
        ELSE IF data.type # "dividend" /\ (data.shares = <<>> \/ data.shares = <<0>>)
        THEN Err("Buy and sell transactions must have shares")
        ELSE Ok([id |-> data.id, userId |-> data.userId, type |-> data.type,
                 symbol |-> symbol.val, amount |-> amount.val, shares |-> data.shares,
                 timestamp |-> data.timestamp])

getSignedAmount(transaction) == transaction.amount

getPricePerShare(transaction) ==
    IF transaction.shares = <<>> \/ transaction.shares = <<0>> THEN Ok(Null)
    ELSE MoneyDivide(transaction.amount, Abs(transaction.shares[1]))

mapTransactionToDto(transaction) ==
    LET pricePerShare == getPricePerShare(transaction)
    IN  IF ~pricePerShare.ok THEN pricePerShare
        ELSE Ok([id |-> transaction.id, userId |-> transaction.userId,
                 type |-> transaction.type, symbol |-> transaction.symbol.value,
                 amount |-> transaction.amount.amount, shares |-> transaction.shares,
                 timestamp |-> transaction.timestamp])

GetTransactionsExecute(userId) ==
    LET transactionsData == TransactionGetByUserId(userId)
        transactions == [i \in 1..Len(transactionsData) |-> TransactionNew(transactionsData[i])]
        dtos == [i \in 1..Len(transactions) |-> mapTransactionToDto(transactions[i].val)]
    IN  IF FirstError(transactions) # Null
        THEN Wrap("Failed to get transactions", FirstError(transactions))
        ELSE IF FirstError(dtos) # Null THEN Wrap("Failed to get transactions", FirstError(dtos))
        ELSE Ok([i \in 1..Len(dtos) |-> dtos[i].val])

(***************************************************************************)
(* GetDashboardDataUseCase                                                 *)
(***************************************************************************)
\* the text of an error: `${prefix}: ${message}` once it was rethrown
Message(r) == IF "prefix" \in DOMAIN r THEN r.prefix \o ": " \o r.err ELSE r.err

\* the formatted strings of the dto, stripped of '$', ',' and '%', are the
\* decimal strings of the rounded amounts
createPortfolioFromDto(dto) ==
    PortfolioNew([id |-> dto.id, userId |-> dto.userId,
                  totalValue |-> NumStr(dto.totalValue, 1),
                  dailyPnL |-> NumStr(dto.dailyPnL, 1),
                  successRate |-> NumStr(dto.successRate, 1),
                  activePositions |-> dto.activePositions])

createStockFromDto(dto) ==
    StockNew([id |-> dto.id, symbol |-> dto.symbol, name |-> dto.name,
              price |-> NumStr(dto.price, 1), change |-> NumStr(dto.change, 1),
              changePercent |-> NumStr(dto.changePercent, 1), volume |-> dto.volume])

createTransactionFromDto(dto) ==
    TransactionNew([id |-> dto.id, userId |-> dto.userId, type |-> dto.type,
                    symbol |-> dto.symbol, amount |-> NumStr(dto.amount, 1),
                    shares |-> dto.shares, timestamp |-> dto.timestamp])

RECURSIVE SumAbsChangePercent(_, _)
SumAbsChangePercent(stocks, i) ==
    IF i > Len(stocks) THEN 0
    ELSE Abs(stocks[i].changePercent.value) + SumAbsChangePercent(stocks, i + 1)

calculateRiskMetrics(portfolio, stocks) ==
    LET volatility == IF Len(stocks) > 0
                      THEN PercentageNew(SumAbsChangePercent(stocks, 1), Len(stocks))
                      ELSE PercentageNew(0, 1)
        dailyReturn == getDailyReturnPercentage(portfolio)
    IN  IF ~volatility.ok THEN volatility
        ELSE IF ~dailyReturn.ok THEN dailyReturn
        ELSE Ok([volatility |-> volatility.val.value, dailyReturn |-> dailyReturn.val.value])

\* calculateAllocation and calculatePerformanceHistory build fixed and random
\* positive amounts and never throw; their lists are left out of the result
GetDashboardExecute(userId) ==
    LET Fail(r) == Wrap("Failed to get dashboard data", Err(Message(r)))
        \* the entities rebuilt from the dtos, and the risk metrics on them
        assemble(portfolioDto, stocksDto, transactionsDto, portfolio, stocks, transactions) ==
            IF ~portfolio.ok THEN Fail(portfolio)
            ELSE IF FirstError(stocks) # Null THEN Fail(FirstError(stocks))
            ELSE IF FirstError(transactions) # Null THEN Fail(FirstError(transactions))
            ELSE LET riskMetrics ==
                         calculateRiskMetrics(portfolio.val,
                             [i \in 1..Len(stocks) |-> stocks[i].val])
                 IN  IF ~riskMetrics.ok THEN Fail(riskMetrics)
                     ELSE Ok([portfolio |-> portfolioDto.val, stocks |-> stocksDto.val,
                              transactions |-> transactionsDto.val,
                              riskMetrics |-> riskMetrics.val])
        \* the three use cases have answered (Promise.all)
        execute(portfolioDto, stocksDto, transactionsDto) ==
            IF ~portfolioDto.ok THEN Fail(portfolioDto)
            ELSE IF ~stocksDto.ok THEN Fail(stocksDto)
            ELSE IF ~transactionsDto.ok THEN Fail(transactionsDto)
            ELSE IF portfolioDto.val = Null THEN Fail(Err("Portfolio not found"))
            ELSE assemble(portfolioDto, stocksDto, transactionsDto,
                     createPortfolioFromDto(portfolioDto.val),
                     [i \in 1..Len(stocksDto.val) |-> createStockFromDto(stocksDto.val[i])],
                     [i \in 1..Len(transactionsDto.val) |->
                         createTransactionFromDto(transactionsDto.val[i])])
    IN  execute(GetPortfolioExecute(userId), GetMarketDataExecute,
                GetTransactionsExecute(userId))

(***************************************************************************)
(* The HTTP routes, served from the seeded repositories                    *)
(***************************************************************************)
\* a JavaScript number that is an integer n, or NaN
NaN == [nan |-> TRUE]
Int32(n) == [nan |-> FALSE, n |-> n]
isNaN(x) == x.nan

\* parseInt of a path parameter: the integer part, NaN when it has none
parseInt(param) ==
    IF param.kind # "num" THEN NaN
    ELSE IF param.n >= 0 THEN Int32(param.n \div (100 * param.d))
    ELSE Int32(0 - ((0 - param.n) \div (100 * param.d)))

Param(n) == NumStr(100 * n, 1)

UserIdParams == {Param(1), Param(2), Param(4), Param(0), JunkStr}
ItemIdParams == {Param(1), Param(9), JunkStr}
SymbolParams == {<<"a", "a", "p", "l">>, MSFT, <<"Z", "Z", "Z">>}
RouteCreateDtos == {[symbol |-> MSFT], [symbol |-> TOOLONG]}
RouteUpdateDtos == {[alertEnabled |-> FALSE]}

InitRoutes ==
    /\ items = SampleItems
    /\ userItems = SampleUserItems
    /\ currentId = 4
    /\ portfolios = SamplePortfolios
    /\ pCurrentId = 1
    /\ services = RegisteredServices
    /\ call = [op |-> "none"]
    /\ last = [op |-> "none"]
    /\ pout = [op |-> "none"] /\ mny = [ops |-> <<>>] /\ alr = [op |-> "none"]

RoutesUnchanged == UNCHANGED <<mny, portfolios, pCurrentId, pout, alr, call>>
RepoUnchanged == UNCHANGED <<items, userItems, currentId>>

Respond(op, params, status, body) ==
    last' = [op |-> op, params |-> params, status |-> status, body |-> body]

\* Container.register(key, service)
ContainerRegister(key) ==
    /\ services' = services \cup {key}
    /\ last' = [op |-> "register", key |-> key]
    /\ RepoUnchanged /\ RoutesUnchanged

GetPortfolioRoute(userIdParam) ==
    LET userId == parseInt(userIdParam)
        portfolio == GetPortfolioExecute(userId.n)
        R(status, body) == Respond("GET /api/portfolio/:userId", [userId |-> userIdParam],
                                   status, body)
    IN  /\ IF isNaN(userId) \/ userId.n <= 0 THEN R(400, [message |-> "Invalid user ID"])
           ELSE IF ~portfolio.ok THEN R(500, [message |-> "Failed to fetch portfolio"])
           ELSE IF portfolio.val = Null THEN R(404, [message |-> "Portfolio not found"])
           ELSE R(200, portfolio.val)
        /\ UNCHANGED services /\ RepoUnchanged /\ RoutesUnchanged

GetStocksRoute ==
    LET stocks == GetMarketDataExecute
        R(status, body) == Respond("GET /api/stocks", <<>>, status, body)
    IN  /\ IF ~stocks.ok THEN R(500, [message |-> "Failed to fetch stocks"])
           ELSE R(200, stocks.val)
        /\ UNCHANGED services /\ RepoUnchanged /\ RoutesUnchanged

GetStockRoute(symbolParam) ==
    LET symbol == ToUpperCase(symbolParam)
        stock == GetMarketDataGetBySymbol(symbol)
        R(status, body) == Respond("GET /api/stocks/:symbol", [symbol |-> symbolParam],
                                   status, body)
    IN  /\ IF ~stock.ok THEN R(500, [message |-> "Failed to fetch stock"])
           ELSE IF stock.val = Null THEN R(404, [message |-> "Stock not found"])
           ELSE R(200, stock.val)
        /\ UNCHANGED services /\ RepoUnchanged /\ RoutesUnchanged

GetTransactionsRoute(userIdParam) ==
    LET userId == parseInt(userIdParam)
        transactions == GetTransactionsExecute(userId.n)
        R(status, body) == Respond("GET /api/transactions/:userId", [userId |-> userIdParam],
                                   status, body)
    IN  /\ IF isNaN(userId) \/ userId.n <= 0 THEN R(400, [message |-> "Invalid user ID"])
           ELSE IF ~transactions.ok THEN R(500, [message |-> "Failed to fetch transactions"])
           ELSE R(200, transactions.val)
        /\ UNCHANGED services /\ RepoUnchanged /\ RoutesUnchanged

GetDashboardRoute(userIdParam) ==
    LET userId == parseInt(userIdParam)
        dashboardData == GetDashboardExecute(userId.n)
        R(status, body) == Respond("GET /api/dashboard/:userId", [userId |-> userIdParam],
                                   status, body)
    IN  /\ IF isNaN(userId) \/ userId.n <= 0 THEN R(400, [message |-> "Invalid user ID"])
           ELSE IF ~dashboardData.ok THEN R(500, [message |-> "Failed to fetch dashboard data"])
           ELSE R(200, dashboardData.val)
        /\ UNCHANGED services /\ RepoUnchanged /\ RoutesUnchanged

PostWatchlistRoute(userIdParam, createDto) ==
    LET userId == parseInt(userIdParam)
        manageWatchlistUseCase == ContainerGet("ManageWatchlistUseCase")
        out == addToWatchlist(userId.n, createDto)
        R(status, body) == Respond("POST /api/watchlist/:userId",
                                   [userId |-> userIdParam, body |-> createDto], status, body)
    IN  /\ IF isNaN(userId) \/ userId.n <= 0
           THEN R(400, [message |-> "Invalid user ID"]) /\ RepoUnchanged
           ELSE IF ~manageWatchlistUseCase.ok
           THEN R(500, [message |-> Message(manageWatchlistUseCase)]) /\ RepoUnchanged
           ELSE /\ Becomes(out)
                /\ IF out.res.ok THEN R(201, out.res.val)
                   ELSE R(500, [message |-> Message(out.res)])
        /\ UNCHANGED services /\ RoutesUnchanged

PatchWatchlistRoute(userIdParam, itemIdParam, updateDto) ==
    LET userId == parseInt(userIdParam)
        itemId == parseInt(itemIdParam)
        manageWatchlistUseCase == ContainerGet("ManageWatchlistUseCase")
        out == updateWatchlistItem(userId.n, itemId.n, updateDto)
        R(status, body) == Respond("PATCH /api/watchlist/:userId/:itemId",
                                   [userId |-> userIdParam, itemId |-> itemIdParam,
                                    body |-> updateDto], status, body)
    IN  /\ IF isNaN(userId) \/ userId.n <= 0 \/ isNaN(itemId) \/ itemId.n <= 0
           THEN R(400, [message |-> "Invalid user ID or item ID"]) /\ RepoUnchanged
           ELSE IF ~manageWatchlistUseCase.ok
           THEN R(500, [message |-> Message(manageWatchlistUseCase)]) /\ RepoUnchanged
           ELSE /\ Becomes(out)
                /\ IF out.res.ok THEN R(200, out.res.val)
                   ELSE R(500, [message |-> Message(out.res)])
        /\ UNCHANGED services /\ RoutesUnchanged

DeleteWatchlistRoute(userIdParam, itemIdParam) ==
    LET userId == parseInt(userIdParam)
        itemId == parseInt(itemIdParam)
        manageWatchlistUseCase == ContainerGet("ManageWatchlistUseCase")
        out == removeFromWatchlist(userId.n, itemId.n)
        R(status, body) == Respond("DELETE /api/watchlist/:userId/:itemId",
                                   [userId |-> userIdParam, itemId |-> itemIdParam],
                                   status, body)
    IN  /\ IF isNaN(userId) \/ userId.n <= 0 \/ isNaN(itemId) \/ itemId.n <= 0
           THEN R(400, [message |-> "Invalid user ID or item ID"]) /\ RepoUnchanged
           ELSE IF ~manageWatchlistUseCase.ok
           THEN R(500, [message |-> Message(manageWatchlistUseCase)]) /\ RepoUnchanged
           ELSE /\ Becomes(out)
                /\ IF out.res.ok THEN R(204, <<>>)
                   ELSE R(500, [message |-> Message(out.res)])
        /\ UNCHANGED services /\ RoutesUnchanged

Register == ContainerRegister("ManageWatchlistUseCase")
GetPortfolio == \E userIdParam \in UserIdParams : GetPortfolioRoute(userIdParam)
GetStock == \E symbolParam \in SymbolParams : GetStockRoute(symbolParam)
GetTransactions == \E userIdParam \in UserIdParams : GetTransactionsRoute(userIdParam)
GetDashboard == \E userIdParam \in UserIdParams : GetDashboardRoute(userIdParam)
PostWatchlist == \E userIdParam \in UserIdParams, createDto \in RouteCreateDtos :
                     PostWatchlistRoute(userIdParam, createDto)
PatchWatchlist == \E userIdParam \in UserIdParams, itemIdParam \in ItemIdParams,
                     updateDto \in RouteUpdateDtos :
                      PatchWatchlistRoute(userIdParam, itemIdParam, updateDto)
DeleteWatchlist == \E userIdParam \in UserIdParams, itemIdParam \in ItemIdParams :
                       DeleteWatchlistRoute(userIdParam, itemIdParam)

NextRoutes ==
    \/ Register
    \/ GetPortfolio
    \/ GetStocksRoute
    \/ GetStock
    \/ GetTransactions
    \/ GetDashboard
    \/ PostWatchlist
    \/ PatchWatchlist
    \/ DeleteWatchlist

SpecRoutes == InitRoutes /\ [][NextRoutes]_vars

ValidId(param) == ~isNaN(parseInt(param)) /\ parseInt(param).n > 0

\* the request of this step asks for something the repositories do not hold
NotFoundRequest ==
    \/ /\ last'.op \in {"GET /api/portfolio/:userId", "GET /api/dashboard/:userId"}
       /\ ValidId(last'.params.userId)
       /\ PortfolioGetByUserId(parseInt(last'.params.userId).n) = Null
    \/ /\ last'.op = "GET /api/stocks/:symbol"
       /\ StockGetBySymbol(last'.params.symbol) = Null
    \/ /\ last'.op \in {"PATCH /api/watchlist/:userId/:itemId",
                        "DELETE /api/watchlist/:userId/:itemId"}
       /\ ValidId(last'.params.userId) /\ ValidId(last'.params.itemId)
       /\ \/ WatchlistGetById(parseInt(last'.params.itemId).n) = Null
          \/ WatchlistGetById(parseInt(last'.params.itemId).n).userId
                 # parseInt(last'.params.userId).n

\* C6: every route answers a request for a missing portfolio, stock or
\* watchlist item with HTTP 404.
C6_NotFoundIs404 ==
    [][NotFoundRequest => last'.status = 404]_vars

(***************************************************************************)
(* Calls of the domain entities and value objects on drawn inputs          *)
(***************************************************************************)
\* everything but `call` is idle in these specifications
CallIdle ==
    /\ items = <<>> /\ userItems = <<>> /\ currentId = 1
    /\ last = [op |-> "none"]
    /\ portfolios = <<>> /\ pCurrentId = 1 /\ pout = [op |-> "none"]
    /\ mny = [ops |-> <<>>] /\ alr = [op |-> "none"]
    /\ services = RegisteredServices

CallUnchanged ==
    UNCHANGED <<items, userItems, currentId, last, mny, portfolios, pCurrentId, pout, alr,
                services>>

(***************************************************************************)
(* Transaction                                                             *)
(***************************************************************************)
\* 'transfer' is not a transaction type; amounts '1500.00', '-1500.00', 'abc'
TransactionInputs ==
    [id : {0, 1}, userId : {0, 1}, type : {"buy", "sell", "dividend", "transfer"},
     symbol : {AAPL, TOOLONG}, amount : {NumStr(150000, 1), NumStr(-150000, 1), JunkStr},
     shares : {<<>>, <<0>>, <<10>>, <<-10>>}, timestamp : {<<Now>>}]

InitTransaction ==
    /\ \E data \in TransactionInputs : call = [op |-> "input", data |-> data]
    /\ CallIdle

TxConstruct ==
    /\ call.op = "input"
    /\ call' = [op |-> "construct", data |-> call.data, res |-> TransactionNew(call.data)]
    /\ CallUnchanged

TxGetSignedAmount ==
    /\ call.op = "construct" /\ call.res.ok
    /\ call' = [op |-> "getSignedAmount", data |-> call.data, res |-> call.res,
                out |-> Ok(getSignedAmount(call.res.val))]
    /\ CallUnchanged

TxGetPricePerShare ==
    /\ call.op = "construct" /\ call.res.ok
    /\ call' = [op |-> "getPricePerShare", data |-> call.data, res |-> call.res,
                out |-> getPricePerShare(call.res.val)]
    /\ CallUnchanged

NextTransaction ==
    \/ TxConstruct
    \/ TxGetSignedAmount
    \/ TxGetPricePerShare

SpecTransaction == InitTransaction /\ [][NextTransaction]_vars

NoShares(data) == data.shares = <<>> \/ data.shares = <<0>>

\* C11 (as stated): a constructed Transaction has a type in {buy, sell,
\* dividend} and, when buy or sell, non-null non-zero shares; constructing a
\* buy or sell with null or zero shares fails with 'Buy and sell transactions
\* must have shares'.
C11_Original ==
    call.op = "construct" =>
        /\ call.res.ok =>
              /\ call.res.val.type \in {"buy", "sell", "dividend"}
              /\ call.res.val.type \in {"buy", "sell"} => ~NoShares(call.res.val)
        /\ (call.data.type \in {"buy", "sell"} /\ NoShares(call.data)) =>
              (~call.res.ok /\ call.res.err = "Buy and sell transactions must have shares")

\* C11 (amended): a constructed Transaction has a type in {buy, sell,
\* dividend} and, when buy or sell, non-null non-zero shares; constructing a
\* buy or sell with null or zero shares fails, with 'Buy and sell transactions
\* must have shares' when its symbol, amount, id and userId are valid.
C11_TransactionShares ==
    call.op = "construct" =>
        /\ call.res.ok =>
              /\ call.res.val.type \in {"buy", "sell", "dividend"}
              /\ call.res.val.type \in {"buy", "sell"} => ~NoShares(call.res.val)
        /\ (call.data.type \in {"buy", "sell"} /\ NoShares(call.data)) =>
              /\ ~call.res.ok
              /\ (/\ StockSymbolNew(call.data.symbol).ok
                  /\ call.data.amount.kind = "num"
                  /\ call.data.id > 0 /\ call.data.userId > 0)
                   => call.res.err = "Buy and sell transactions must have shares"

C11_Witness ==
    /\ call.op = "construct"
    /\ call.data.type = "sell" /\ call.data.shares = <<0>>
    /\ call.data.id = 1 /\ call.data.userId = 1 /\ call.data.symbol = AAPL
    /\ ~call.res.ok /\ call.res.err = "Buy and sell transactions must have shares"

(***************************************************************************)
(* StockSymbol on every string of up to MaxSymbolLen characters            *)
(***************************************************************************)
MaxSymbolLen == 6

SymbolChars == {"a", "Z", "1", " "}

RECURSIVE StringsOfLen(_)
StringsOfLen(n) ==
    IF n = 0 THEN {<<>>}
    ELSE {Append(t, c) : t \in StringsOfLen(n - 1), c \in SymbolChars}

SymbolInputs == UNION {StringsOfLen(n) : n \in 0..MaxSymbolLen}

InitStockSymbol ==
    /\ \E symbol \in SymbolInputs : call = [op |-> "input", symbol |-> symbol]
    /\ CallIdle

SymConstruct ==
    /\ call.op = "input"
    /\ call' = [op |-> "newStockSymbol", symbol |-> call.symbol,
                res |-> StockSymbolNew(call.symbol)]
    /\ CallUnchanged

SymEquals ==
    /\ call.op = "newStockSymbol" /\ call.res.ok
    /\ \E other \in {AAPL, <<"a">>, <<"Z", "a">>} :
          call' = [op |-> "equals", symbol |-> call.symbol, res |-> call.res,
                   other |-> other,
                   out |-> (call.res.val.value = StockSymbolNew(other).val.value)]
    /\ CallUnchanged

NextStockSymbol ==
    \/ SymConstruct
    \/ SymEquals

SpecStockSymbol == InitStockSymbol /\ [][NextStockSymbol]_vars

Normalized(s) == ToUpperCase(Trim(s))
OnlyLetters(t) == \A i \in 1..Len(t) : \E j \in 1..26 : UpperCaseLetters[j] = t[i]

\* C12 (as stated): new StockSymbol(s) succeeds exactly when s, trimmed and
\* upper-cased, is 1 to 5 letters A-Z, and its value is then that string; a
\* longer input fails with '... between 1 and 5 characters' and an input
\* containing a non-letter fails with '... only letters'.
C12_Original ==
    call.op = "newStockSymbol" =>
        LET t == Normalized(call.symbol)
        IN  /\ call.res.ok <=> (Len(t) \in 1..5 /\ OnlyLetters(t))
            /\ call.res.ok => call.res.val.value = t
            /\ Len(t) > 5 =>
                  (~call.res.ok
                     /\ call.res.err = "Stock symbol must be between 1 and 5 characters")
            /\ ~OnlyLetters(t) =>
                  (~call.res.ok /\ call.res.err = "Stock symbol must contain only letters")

\* C12 (amended): new StockSymbol(s) succeeds exactly when s, trimmed and
\* upper-cased, is 1 to 5 letters A-Z, and its value is then that string; an
\* input longer than 5 after trimming fails with '... between 1 and 5
\* characters', and an input of 1 to 5 characters after trimming that contains
\* a non-letter fails with '... only letters'.
C12_StockSymbol ==
    call.op = "newStockSymbol" =>
        LET t == Normalized(call.symbol)
        IN  /\ call.res.ok <=> (Len(t) \in 1..5 /\ OnlyLetters(t))
            /\ call.res.ok => call.res.val.value = t
            /\ Len(t) > 5 =>
                  (~call.res.ok
                     /\ call.res.err = "Stock symbol must be between 1 and 5 characters")
            /\ (Len(t) \in 1..5 /\ ~OnlyLetters(t)) =>
                  (~call.res.ok /\ call.res.err = "Stock symbol must contain only letters")

C12_Witness ==
    /\ call.op = "newStockSymbol"
    /\ call.symbol = <<" ", "a", "Z", " ">>
    /\ call.res.ok /\ call.res.val.value = <<"A", "Z">>

(***************************************************************************)
(* WatchlistItem: the functional updates                                   *)
(***************************************************************************)
\* { ...this.data, notes: notes.trim() }
updateNotes(item, notes) == WatchlistItemNew(Spread(item, [notes |-> Trim(notes)]))

\* { ...this.data, targetPrice: targetPrice?.amount.toString() }; for null the
\* field is undefined, which reads and serializes as a missing field
updateTargetPrice(item, targetPrice) ==
    IF targetPrice = Null
    THEN WatchlistItemNew([f \in DOMAIN item \ {"targetPrice"} |-> item[f]])
    ELSE WatchlistItemNew(Spread(item, [targetPrice |-> NumStr(targetPrice.amount, 1)]))

\* mutant: the new item is built without the optional fields
toggleAlert_DropsOptional(item) ==
    WatchlistItemNew([id |-> item.id, userId |-> item.userId, symbol |-> item.symbol,
                      addedAt |-> item.addedAt, alertEnabled |-> ~item.alertEnabled])

\* { ...this.data, alertEnabled: !this.data.alertEnabled }
toggleAlert(item) == WatchlistItemNew(Spread(item, [alertEnabled |-> ~item.alertEnabled]))

ItemRequired ==
    [id : {0, 1}, userId : {1}, symbol : {AAPL}, addedAt : {Now - 7}, alertEnabled : BOOLEAN]
ItemOptional ==
    {<<>>} \cup [notes : {<<>>, <<"x">>}] \cup [targetPrice : {EmptyStr, NumStr(20000, 1)}]
           \cup [notes : {<<"x">>}, targetPrice : {NumStr(20000, 1)}]
ItemInputs == {Spread(r, o) : r \in ItemRequired, o \in ItemOptional}
NotesInputs == {<<>>, <<"x">>, <<" ", "y", " ">>}
TargetPriceInputs == {Null, MoneyNew(0, 1, USD).val, MoneyNew(15050, 1, USD).val,
                      MoneyNew(20000, 1, EUR).val}

InitWatchlistItem ==
    /\ \E data \in ItemInputs : call = [op |-> "input", data |-> data]
    /\ CallIdle

\* a method call leaves this.data as it is and returns the new item
ItemCalled(op, arg, out) ==
    /\ call.op = "newWatchlistItem" /\ call.res.ok
    /\ call' = [op |-> op, before |-> call.res.val, item |-> call.res.val,
                arg |-> arg, out |-> out]
    /\ CallUnchanged

WiConstruct ==
    /\ call.op = "input"
    /\ call' = [op |-> "newWatchlistItem", data |-> call.data,
                res |-> WatchlistItemNew(call.data)]
    /\ CallUnchanged

WiUpdateNotes ==
    \E notes \in NotesInputs : ItemCalled("updateNotes", notes, updateNotes(call.res.val, notes))

WiUpdateTargetPrice ==
    \E targetPrice \in TargetPriceInputs :
        ItemCalled("updateTargetPrice", targetPrice,
                   updateTargetPrice(call.res.val, targetPrice))

WiToggleAlert == ItemCalled("toggleAlert", <<>>, toggleAlert(call.res.val))

NextWatchlistItem ==
    \/ WiConstruct
    \/ WiUpdateNotes
    \/ WiUpdateTargetPrice
    \/ WiToggleAlert

SpecWatchlistItem == InitWatchlistItem /\ [][NextWatchlistItem]_vars

ItemFields == {"id", "userId", "symbol", "addedAt", "notes", "targetPrice", "alertEnabled"}

\* the field is the same in both items: missing in both, or equal
SameField(a, b, f) ==
    /\ (f \in DOMAIN a) <=> (f \in DOMAIN b)
    /\ f \in DOMAIN a => a[f] = b[f]

AddressedField(op) ==
    IF op = "updateNotes" THEN "notes"
    ELSE IF op = "updateTargetPrice" THEN "targetPrice"
    ELSE "alertEnabled"

\* C13: updateNotes, updateTargetPrice and toggleAlert return a new
\* WatchlistItem that differs from the original in the addressed field only,
\* and the original keeps every field.
C13_FunctionalUpdate ==
    call.op \in {"updateNotes", "updateTargetPrice", "toggleAlert"} =>
        /\ call.out.ok
        /\ \A f \in ItemFields \ {AddressedField(call.op)} :
              SameField(call.out.val, call.before, f)
        /\ call.item = call.before

C13_Witness ==
    /\ call.op = "toggleAlert"
    /\ "notes" \in DOMAIN call.before /\ "targetPrice" \in DOMAIN call.before
    /\ call.out.ok /\ call.out.val.alertEnabled # call.before.alertEnabled
    /\ call.out.val.notes = call.before.notes

(***************************************************************************)
(* PortfolioCalculationService.calculatePortfolioMetrics                   *)
(* Share counts are whole numbers; timestamps are minutes relative to now; *)
(* a price map is a function from symbol values to Money.                  *)
(***************************************************************************)
\* Map.set(key, value)
MapSet(map, key, value) ==
    [k \in DOMAIN map \cup {key} |-> IF k = key THEN value ELSE map[k]]

Truthy(shares) == shares # <<>> /\ shares # <<0>>

RECURSIVE calculatePositionsFrom(_, _, _)
calculatePositionsFrom(transactions, i, positions) ==
    IF i > Len(transactions) THEN positions
    ELSE LET transaction == transactions[i]
             symbol == transaction.symbol.value
             currentShares == IF symbol \in DOMAIN positions THEN positions[symbol] ELSE 0
         IN  calculatePositionsFrom(transactions, i + 1,
                 IF transaction.type = "buy" /\ Truthy(transaction.shares)
                 THEN MapSet(positions, symbol, currentShares + transaction.shares[1])
                 ELSE IF transaction.type = "sell" /\ Truthy(transaction.shares)
                 THEN MapSet(positions, symbol, currentShares - Abs(transaction.shares[1]))
                 ELSE positions)

calculatePositions(transactions) == calculatePositionsFrom(transactions, 1, <<>>)

\* date.toDateString() === today.toDateString(), sinceMidnight minutes into today
isToday(timestamp, sinceMidnight) ==
    timestamp[1] >= 0 - sinceMidnight /\ timestamp[1] < 1440 - sinceMidnight

\* the first buy of the sell's symbol with an earlier timestamp, or null
findMatchingBuyTransaction(sellTransaction, buyTransactions) ==
    LET Matches(t) == /\ t.symbol.value = sellTransaction.symbol.value
                      /\ t.timestamp[1] < sellTransaction.timestamp[1]
    IN  IF \E i \in 1..Len(buyTransactions) : Matches(buyTransactions[i])
        THEN buyTransactions[CHOOSE i \in 1..Len(buyTransactions) :
                                /\ Matches(buyTransactions[i])
                                /\ \A j \in 1..(i - 1) : ~Matches(buyTransactions[j])]
        ELSE Null

\* a left fold of a throwing step over a list, stopping at the first error
RECURSIVE FoldOk(_, _, _, _)
FoldOk(Step(_, _), acc, list, i) ==
    IF ~acc.ok \/ i > Len(list) THEN acc
    ELSE FoldOk(Step, Step(acc.val, list[i]), list, i + 1)

\* the loop over the positions adds currentPrice * |shares| per priced symbol
RECURSIVE totalValueOver(_, _, _, _)
totalValueOver(symbols, positions, currentStockPrices, totalValue) ==
    IF ~totalValue.ok \/ symbols = {} THEN totalValue
    ELSE LET symbol == CHOOSE x \in symbols : TRUE
             positionValue == MoneyMultiply(currentStockPrices[symbol],
                                            Abs(positions[symbol]), 1)
             rest == symbols \ {symbol}
         IN  IF symbol \in DOMAIN currentStockPrices /\ positions[symbol] # 0
             THEN IF ~positionValue.ok THEN positionValue
                  ELSE totalValueOver(rest, positions, currentStockPrices,
                                      MoneyAdd(totalValue.val, positionValue.val))
             ELSE totalValueOver(rest, positions, currentStockPrices, totalValue)

\* mutant: a sell priced the same as its matched buy counts as well
SuccessfulTrade_NotBelow(sellTx, buyTransactions) ==
    LET buyTx == findMatchingBuyTransaction(sellTx, buyTransactions)
    IN  IF buyTx = Null THEN Ok(0)
        ELSE LET buyPrice == getPricePerShare(buyTx)
                 sellPrice == getPricePerShare(sellTx)
             IN  IF ~buyPrice.ok THEN buyPrice
                 ELSE IF ~sellPrice.ok THEN sellPrice
                 ELSE IF buyPrice.val = Null \/ sellPrice.val = Null THEN Ok(0)
                 ELSE LET below == MoneyIsLessThan(sellPrice.val, buyPrice.val)
                      IN  IF ~below.ok THEN below
                          ELSE Ok(IF below.val THEN 0 ELSE 1)

\* 1 when the sell is priced above its matched buy, else 0
SuccessfulTrade(sellTx, buyTransactions) ==
    LET buyTx == findMatchingBuyTransaction(sellTx, buyTransactions)
    IN  IF buyTx = Null THEN Ok(0)
        ELSE LET buyPrice == getPricePerShare(buyTx)
                 sellPrice == getPricePerShare(sellTx)
             IN  IF ~buyPrice.ok THEN buyPrice
                 ELSE IF ~sellPrice.ok THEN sellPrice
                 ELSE IF buyPrice.val = Null \/ sellPrice.val = Null THEN Ok(0)
                 ELSE LET above == MoneyIsGreaterThan(sellPrice.val, buyPrice.val)
                      IN  IF ~above.ok THEN above
                          ELSE Ok(IF above.val THEN 1 ELSE 0)

calculateDailyPnL(transactions, sinceMidnight) ==
    LET todayTransactions ==
            SelectSeq(transactions, LAMBDA t : isToday(t.timestamp, sinceMidnight))
        Step(dailyPnL, transaction) ==
            IF transaction.type = "buy" THEN MoneySubtract(dailyPnL, transaction.amount)
            ELSE MoneyAdd(dailyPnL, transaction.amount)
    IN  FoldOk(Step, MoneyZero, todayTransactions, 1)

calculatePortfolioMetrics(transactions, currentStockPrices, sinceMidnight) ==
    LET positions == calculatePositions(transactions)
        totalValue == totalValueOver(DOMAIN positions, positions, currentStockPrices,
                                     MoneyZero)
        buyTransactions == SelectSeq(transactions, LAMBDA t : t.type = "buy")
        sellTransactions == SelectSeq(transactions, LAMBDA t : t.type = "sell")
        Invest(acc, t) == MoneyAdd(acc, t.amount)
        totalInvested == FoldOk(Invest, MoneyZero, buyTransactions, 1)
        Count(acc, sellTx) ==
            LET won == SuccessfulTrade(sellTx, buyTransactions)
            IN  IF ~won.ok THEN won ELSE Ok(acc + won.val)
        successfulTrades == FoldOk(Count, Ok(0), sellTransactions, 1)
        totalTrades == Len(sellTransactions)
    IN  IF ~totalValue.ok THEN totalValue
        ELSE IF ~totalInvested.ok THEN totalInvested
        ELSE IF ~successfulTrades.ok THEN successfulTrades
        ELSE LET successRate == IF totalTrades > 0
                                THEN PercentageNew(10000 * successfulTrades.val, totalTrades)
                                ELSE PercentageZero
                 totalPnL == MoneySubtract(totalValue.val, totalInvested.val)
                 dailyPnL == calculateDailyPnL(transactions, sinceMidnight)
             IN  IF ~successRate.ok THEN successRate
                 ELSE IF ~totalPnL.ok THEN totalPnL
                 ELSE IF ~dailyPnL.ok THEN dailyPnL
                 ELSE Ok([totalValue |-> totalValue.val, dailyPnL |-> dailyPnL.val,
                          totalPnL |-> totalPnL.val, successRate |-> successRate.val,
                          activePositions |->
                              Cardinality({x \in DOMAIN positions : positions[x] # 0}),
                          totalInvested |-> totalInvested.val])

MaxTransactions == 4

\* a buy of 7 AAPL, sells of 7 AAPL at a cent more, at twice and at half the
\* amount, a buy of 10 TSLA and an AAPL dividend
TransactionDataInputs ==
    {[id |-> 1, userId |-> 1, type |-> "buy", symbol |-> AAPL, amount |-> NumStr(10000, 1),
      shares |-> <<7>>, timestamp |-> <<0 - 3000>>],
     [id |-> 2, userId |-> 1, type |-> "sell", symbol |-> AAPL, amount |-> NumStr(10001, 1),
      shares |-> <<7>>, timestamp |-> <<0 - 10>>],
     [id |-> 3, userId |-> 1, type |-> "sell", symbol |-> AAPL, amount |-> NumStr(20000, 1),
      shares |-> <<7>>, timestamp |-> <<0 - 10>>],
     [id |-> 4, userId |-> 1, type |-> "sell", symbol |-> AAPL, amount |-> NumStr(5000, 1),
      shares |-> <<7>>, timestamp |-> <<0 - 5>>],
     [id |-> 5, userId |-> 1, type |-> "buy", symbol |-> TSLA, amount |-> NumStr(30000, 1),
      shares |-> <<10>>, timestamp |-> <<0 - 10>>],
     [id |-> 6, userId |-> 1, type |-> "dividend", symbol |-> AAPL, amount |-> NumStr(500, 1),
      shares |-> <<>>, timestamp |-> <<0 - 5>>]}

ValidTransactions == {TransactionNew(data).val : data \in TransactionDataInputs}

TransactionLists == UNION {[1..n -> ValidTransactions] : n \in 0..MaxTransactions}

PriceMapInputs ==
    {<<>>,
     [symbol \in {AAPL} |-> MoneyNew(1500, 1, USD).val],
     [symbol \in {AAPL, TSLA} |->
         IF symbol = AAPL THEN MoneyNew(1500, 1, USD).val ELSE MoneyNew(4000, 1, USD).val]}

\* the call is made a minute after midnight or at noon
SinceMidnightInputs == {1, 720}

InitMetrics ==
    /\ \E transactions \in TransactionLists, prices \in PriceMapInputs,
          sinceMidnight \in SinceMidnightInputs :
          call = [op |-> "input", transactions |-> transactions, prices |-> prices,
                  sinceMidnight |-> sinceMidnight]
    /\ CallIdle

MetCalculatePortfolioMetrics ==
    /\ call.op = "input"
    /\ call' = [op |-> "calculatePortfolioMetrics", transactions |-> call.transactions,
                prices |-> call.prices, sinceMidnight |-> call.sinceMidnight,
                res |-> calculatePortfolioMetrics(call.transactions, call.prices,
                                                  call.sinceMidnight)]
    /\ CallUnchanged

NextMetrics == MetCalculatePortfolioMetrics

SpecMetrics == InitMetrics /\ [][NextMetrics]_vars

SellsOf(list) == {i \in 1..Len(list) : list[i].type = "sell"}

\* the buys of the sell's symbol dated before the sell
EarlierBuys(list, i) ==
    {j \in 1..Len(list) : /\ list[j].type = "buy"
                          /\ list[j].symbol.value = list[i].symbol.value
                          /\ list[j].timestamp[1] < list[i].timestamp[1]}

FirstOf(S) == CHOOSE j \in S : \A k \in S : j <= k

\* the sell's price per share (amount / shares, in whole cents as
\* getPricePerShare gives it) exceeds the buy's
PricedAboveInCents(sell, buy) ==
    MathRound(sell.amount.amount, Abs(sell.shares[1]))
        > MathRound(buy.amount.amount, Abs(buy.shares[1]))

RECURSIVE NetShares(_, _, _)
NetShares(list, symbol, i) ==
    IF i > Len(list) THEN 0
    ELSE NetShares(list, symbol, i + 1)
            + (IF list[i].symbol.value # symbol THEN 0
               ELSE IF list[i].type = "buy" THEN list[i].shares[1]
               ELSE IF list[i].type = "sell" THEN 0 - list[i].shares[1]
               ELSE 0)

RECURSIVE SumPositions(_, _, _)
SumPositions(symbols, list, prices) ==
    IF symbols = {} THEN 0
    ELSE LET symbol == CHOOSE x \in symbols : TRUE
         IN  NetShares(list, symbol, 1) * prices[symbol].amount
                + SumPositions(symbols \ {symbol}, list, prices)

\* C15: a returned totalValue is the sum, over the symbols with a current
\* price, of the symbol's net share position times its current price.
C15_TotalValue ==
    (call.op = "calculatePortfolioMetrics" /\ call.res.ok) =>
        call.res.val.totalValue.amount
            = SumPositions(DOMAIN call.prices, call.transactions, call.prices)

(***************************************************************************)
(* WatchlistService.calculateWatchlistPerformance                          *)
(***************************************************************************)
\* addedAt is kept in whole days, so the Math.ceil of the difference is the
\* difference
daysSinceAdded(item) == Abs(Now - item.addedAt)

\* `${sign}${value.toFixed(2)}%`
toSignedString(percentage) ==
    [sign |-> IF percentage.value >= 0 THEN "+" ELSE "", hundredths |-> percentage.value,
     suffix |-> "%"]

\* mutant: an equal changePercent replaces the top performer as well
isHigher_OrEqual(changePercent, highestChange) ==
    highestChange = <<>> \/ changePercent >= highestChange[1]

\* changePercent > highestChange, highestChange being <<>> for -Infinity
isHigher(changePercent, highestChange) ==
    highestChange = <<>> \/ changePercent > highestChange[1]

\* the loop of findTopPerformer from item i on
RECURSIVE findTopPerformerFrom(_, _, _, _, _)
findTopPerformerFrom(watchlistItems, currentStocks, i, topPerformer, highestChange) ==
    IF i > Len(watchlistItems) THEN Ok(topPerformer)
    ELSE LET symbol == ItemSymbol(watchlistItems[i])
         IN  IF ~symbol.ok THEN symbol
             ELSE LET stock == findStockBySymbol(symbol.val.value, currentStocks)
                  IN  IF stock = Null
                      THEN findTopPerformerFrom(watchlistItems, currentStocks, i + 1,
                                                topPerformer, highestChange)
                      ELSE IF isHigher(stock.changePercent.value, highestChange)
                      THEN findTopPerformerFrom(watchlistItems, currentStocks, i + 1,
                               [symbol |-> stock.symbol.value,
                                change |-> toSignedString(stock.changePercent)],
                               <<stock.changePercent.value>>)
                      ELSE findTopPerformerFrom(watchlistItems, currentStocks, i + 1,
                                                topPerformer, highestChange)

findTopPerformer(watchlistItems, currentStocks) ==
    findTopPerformerFrom(watchlistItems, currentStocks, 1, Null, <<>>)

RECURSIVE totalDaysFrom(_, _)
totalDaysFrom(watchlistItems, i) ==
    IF i > Len(watchlistItems) THEN 0
    ELSE daysSinceAdded(watchlistItems[i]) + totalDaysFrom(watchlistItems, i + 1)

calculateWatchlistPerformance(watchlistItems, currentStocks) ==
    LET totalItems == Len(watchlistItems)
        alerts == checkAlerts(watchlistItems, currentStocks)
        totalDays == totalDaysFrom(watchlistItems, 1)
        topPerformer == findTopPerformer(watchlistItems, currentStocks)
    IN  IF ~alerts.ok THEN alerts
        ELSE IF ~topPerformer.ok THEN topPerformer
        ELSE Ok([totalItems |-> totalItems,
                 itemsWithAlerts |-> Len(alerts.val),
                 averageDaysHeld |-> IF totalItems > 0 THEN MathRound(totalDays, totalItems)
                                     ELSE 0,
                 topPerformer |-> topPerformer.val])

MaxWatchlistLen == 3

\* watched symbols: two with stocks, one spelt in lower case, one without a
\* stock, one StockSymbol rejects; the last item has an alert on a $2.00 target
PerformanceItemInputs ==
    {[id |-> 1, userId |-> 1, symbol |-> sym, addedAt |-> Now - 3, alertEnabled |-> FALSE]
        : sym \in {AAPL, <<"a", "a", "p", "l">>, TSLA, NVDA, TOOLONG}}
    \cup {[id |-> 2, userId |-> 1, symbol |-> TSLA, addedAt |-> Now - 4, alertEnabled |-> TRUE,
           targetPrice |-> NumStr(200, 1)]}

PerformanceWatchlists == UNION {[1..n -> PerformanceItemInputs] : n \in 0..MaxWatchlistLen}

ChangePercentInputs == {NumStr(-50, 1), NumStr(125, 1), NumStr(300, 1)}

PerformanceStock(id, symbol, changePercent) ==
    StockNew([id |-> id, symbol |-> symbol, name |-> symbol, price |-> NumStr(1000, 1),
              change |-> NumStr(1, 1), changePercent |-> changePercent, volume |-> 0]).val

\* no stock, AAPL alone, AAPL and TSLA, and a second AAPL entry behind them
PerformanceStockInputs ==
    {<<>>}
    \cup {<<PerformanceStock(1, AAPL, a)>> : a \in ChangePercentInputs}
    \cup {<<PerformanceStock(1, AAPL, a), PerformanceStock(2, TSLA, b)>>
            : a \in ChangePercentInputs, b \in ChangePercentInputs}
    \cup {<<PerformanceStock(1, AAPL, a), PerformanceStock(2, TSLA, NumStr(125, 1)),
            PerformanceStock(3, AAPL, b)>>
            : a \in ChangePercentInputs, b \in ChangePercentInputs}

InitPerformance ==
    /\ \E watchlist \in PerformanceWatchlists, stocks \in PerformanceStockInputs :
          /\ \A i \in 1..Len(watchlist) : WatchlistItemNew(watchlist[i]).ok
          /\ call = [op |-> "input", watchlistItems |-> watchlist, currentStocks |-> stocks]
    /\ CallIdle

PerfCalculateWatchlistPerformance ==
    /\ call.op = "input"
    /\ call' = [op |-> "calculateWatchlistPerformance", watchlistItems |-> call.watchlistItems,
                currentStocks |-> call.currentStocks,
                res |-> calculateWatchlistPerformance(call.watchlistItems, call.currentStocks)]
    /\ CallUnchanged

NextPerformance == PerfCalculateWatchlistPerformance

SpecPerformance == InitPerformance /\ [][NextPerformance]_vars

\* the items of the list whose symbol some stock carries
MatchedItems(list, stocks) ==
    {i \in 1..Len(list) :
        \E k \in 1..Len(stocks) : stocks[k].symbol.value = ItemSymbol(list[i]).val.value}

ChangeOfItem(list, stocks, i) ==
    findStockBySymbol(ItemSymbol(list[i]).val.value, stocks).changePercent.value

MaxRepoCalls == 3

RepoCreateInputs ==
    {[userId |-> 1, symbol |-> MSFT, notes |-> <<>>, alertEnabled |-> FALSE, addedAt |-> Now],
     [userId |-> 2, symbol |-> AAPL, notes |-> <<>>, alertEnabled |-> TRUE, addedAt |-> Now]}

\* a seeded id, the first created id and an id never stored
RepoIdInputs == {1, 4, 9}

\* new notes, or another owner
RepoUpdateInputs == {[notes |-> <<"x">>], [userId |-> 2]}

RepoUserIds == {1, 2, 3}

InitWatchlistRepo ==
    /\ items = SampleItems
    /\ userItems = SampleUserItems
    /\ currentId = 4
    /\ call = [op |-> "repository", log |-> <<>>]
    /\ last = [op |-> "none"]
    /\ portfolios = <<>> /\ pCurrentId = 1 /\ pout = [op |-> "none"]
    /\ mny = [ops |-> <<>>] /\ alr = [op |-> "none"]
    /\ services = RegisteredServices

Logged(entry) ==
    /\ Len(call.log) < MaxRepoCalls
    /\ call' = [call EXCEPT !.log = Append(@, entry)]
    /\ UNCHANGED <<last, mny, portfolios, pCurrentId, pout, alr, services>>

RepoCreate(itemData) ==
    LET created == WatchlistCreate(itemData)
    IN  /\ items' = created.items
        /\ userItems' = created.userItems
        /\ currentId' = created.currentId
        /\ Logged([op |-> "create", itemData |-> itemData, res |-> created.item])

RepoUpdate(id, updateData) ==
    IF WatchlistGetById(id) = Null
    THEN /\ UNCHANGED <<items, userItems, currentId>>
         /\ Logged([op |-> "update", id |-> id, updateData |-> updateData,
                    res |-> Err(<<"Watchlist item not found: ", id>>)])
    ELSE /\ items' = WatchlistUpdate(id, updateData).items
         /\ UNCHANGED <<userItems, currentId>>
         /\ Logged([op |-> "update", id |-> id, updateData |-> updateData,
                    res |-> Ok(WatchlistUpdate(id, updateData).item)])

RepoDelete(id) ==
    /\ IF WatchlistGetById(id) = Null
       THEN UNCHANGED <<items, userItems>>
       ELSE /\ items' = WatchlistDelete(id).items
            /\ userItems' = WatchlistDelete(id).userItems
    /\ UNCHANGED currentId
    /\ Logged([op |-> "delete", id |-> id,
               changed |-> <<items', userItems'>> # <<items, userItems>>])

RepoCreateCall == \E itemData \in RepoCreateInputs : RepoCreate(itemData)

RepoUpdateCall == \E id \in RepoIdInputs, updateData \in RepoUpdateInputs : RepoUpdate(id, updateData)

RepoDeleteCall == \E id \in RepoIdInputs : RepoDelete(id)

NextWatchlistRepo ==
    \/ RepoCreateCall
    \/ RepoUpdateCall
    \/ RepoDeleteCall

SpecWatchlistRepo == InitWatchlistRepo /\ [][NextWatchlistRepo]_vars

\* the undeleted records after the first n logged calls, each as its last
\* create or update returned it
RECURSIVE RecordsAfter(_, _)
RecordsAfter(log, n) ==
    IF n = 0 THEN SampleItems
    ELSE LET before == RecordsAfter(log, n - 1)
             entry == log[n]
         IN  IF entry.op = "create" THEN (entry.res.id :> entry.res) @@ before
             ELSE IF entry.op = "update"
             THEN IF entry.id \in DOMAIN before
                  THEN [before EXCEPT ![entry.id] = entry.res.val]
                  ELSE before
             ELSE [i \in DOMAIN before \ {entry.id} |-> before[i]]

\* the ids seeded or created for a user, in creation order
RECURSIVE CreatedFor(_, _, _)
CreatedFor(log, n, userId) ==
    IF n = 0 THEN (IF userId \in DOMAIN SampleUserItems THEN SampleUserItems[userId] ELSE <<>>)
    ELSE CreatedFor(log, n - 1, userId)
            \o (IF log[n].op = "create" /\ log[n].itemData.userId = userId
                THEN <<log[n].res.id>> ELSE <<>>)

\* C17: after any sequence of create/update/delete calls, getById gives the
\* record as last created or updated and null once deleted, getByUserId gives
\* the undeleted records created for the user in creation order, update of an
\* absent id fails with 'Watchlist item not found: <id>', and delete of an
\* absent id changes nothing.
C17_Repository ==
    call.op = "repository" =>
        LET log == call.log
            records == RecordsAfter(log, Len(log))
        IN  /\ \A id \in RepoIdInputs \cup (1..currentId) :
                  WatchlistGetById(id) = (IF id \in DOMAIN records THEN records[id] ELSE Null)
            /\ \A userId \in RepoUserIds :
                  LET ids == SelectSeq(CreatedFor(log, Len(log), userId),
                                       LAMBDA id : id \in DOMAIN records)
                  IN  WatchlistGetByUserId(userId) = [k \in 1..Len(ids) |-> records[ids[k]]]
            /\ \A n \in 1..Len(log) :
                  /\ log[n].op = "update" =>
                        IF log[n].id \in DOMAIN RecordsAfter(log, n - 1)
                        THEN log[n].res.ok
                        ELSE log[n].res = Err(<<"Watchlist item not found: ", log[n].id>>)
                  /\ (log[n].op = "delete" /\ log[n].id \notin DOMAIN RecordsAfter(log, n - 1))
                        => ~log[n].changed

\* an item is created, updated and deleted, and is gone from both lookups
C17_Witness ==
    /\ call.op = "repository" /\ Len(call.log) = 3
    /\ call.log[1].op = "create" /\ call.log[1].res.id = 4
    /\ call.log[2].op = "update" /\ call.log[2].id = 4 /\ call.log[2].res.ok
    /\ call.log[3].op = "delete" /\ call.log[3].id = 4 /\ call.log[3].changed
    /\ WatchlistGetById(4) = Null
    /\ Len(WatchlistGetByUserId(1)) = 3

(***************************************************************************)
(* Percentage arithmetic.  A Percentage holds its value in hundredths of a *)
(* percent; a plain number is a fraction n/d, d = 0 for a non-finite one.  *)
(***************************************************************************)
PercentageAdd(this, other) == PercentageNew(this.value + other.value, 1)

PercentageSubtract(this, other) == PercentageNew(this.value - other.value, 1)

\* mutant: the product is cut off after the second decimal
PercentageMultiply_Truncates(this, fn, fd) ==
    IF fd = 0 THEN Err("Percentage value must be a finite number")
    ELSE Ok([value |-> (this.value * fn) \div fd])

\* new Percentage(value * factor), factor = fn/fd
PercentageMultiply(this, fn, fd) == PercentageNew(this.value * fn, fd)

\* new Percentage(value / divisor), divisor = fn/fd a finite number
PercentageDivide(this, fn, fd) ==
    IF fn = 0 THEN Err("Cannot divide by zero")
    ELSE IF fn < 0 THEN PercentageNew((0 - this.value) * fd, 0 - fn)
    ELSE PercentageNew(this.value * fd, fn)

PercentageAbs(this) == PercentageNew(Abs(this.value), 1)

MaxHundredths == 3

\* numbers in hundredths of a percent: whole, halves and thirds of a
\* hundredth, and a non-finite one
PercentageNumberInputs ==
    {[n |-> n, d |-> d] : n \in (0 - MaxHundredths)..MaxHundredths, d \in {1, 2, 3}}
    \cup {[n |-> 1, d |-> 0]}

OtherInputs == {[n |-> n, d |-> 2] : n \in (0 - MaxHundredths)..MaxHundredths}

FactorNumberInputs ==
    {[n |-> 0, d |-> 1], [n |-> 1, d |-> 3], [n |-> 0 - 1, d |-> 2], [n |-> 3, d |-> 2],
     [n |-> 2, d |-> 1]}

InitPercentage ==
    /\ \E x \in PercentageNumberInputs, y \in OtherInputs, factor \in FactorNumberInputs :
          call = [op |-> "input", x |-> x, y |-> y, factor |-> factor]
    /\ CallIdle

\* the call's outcome, with the exact number n/d (in hundredths) it was built from
PercentageCalled(op, exact, res) ==
    /\ call.op = "input"
    /\ call' = [op |-> op, x |-> call.x, y |-> call.y, factor |-> call.factor,
                exact |-> exact, res |-> res]
    /\ CallUnchanged

PctConstruct == PercentageCalled("new Percentage", call.x, PercentageNew(call.x.n, call.x.d))

PctFromString ==
    PercentageCalled("fromString", call.x, PercentageFromString(NumStr(call.x.n, call.x.d)))

\* the decimal is x / 10000, x hundredths of a percent
PctFromDecimal ==
    PercentageCalled("fromDecimal", call.x,
                     PercentageFromDecimal(call.x.n, call.x.d * 10000))

PctAdd ==
    LET this == PercentageNew(call.x.n, call.x.d)
        other == PercentageNew(call.y.n, call.y.d)
    IN  /\ this.ok
        /\ PercentageCalled("add", [n |-> this.val.value + other.val.value, d |-> 1],
                            PercentageAdd(this.val, other.val))

PctSubtract ==
    LET this == PercentageNew(call.x.n, call.x.d)
        other == PercentageNew(call.y.n, call.y.d)
    IN  /\ this.ok
        /\ PercentageCalled("subtract", [n |-> this.val.value - other.val.value, d |-> 1],
                            PercentageSubtract(this.val, other.val))

PctMultiply ==
    LET this == PercentageNew(call.x.n, call.x.d)
    IN  /\ this.ok
        /\ PercentageCalled("multiply",
                            [n |-> this.val.value * call.factor.n, d |-> call.factor.d],
                            PercentageMultiply(this.val, call.factor.n, call.factor.d))

PctDivide ==
    LET this == PercentageNew(call.x.n, call.x.d)
    IN  /\ this.ok
        /\ PercentageCalled("divide",
                            [n |-> this.val.value * call.factor.d, d |-> call.factor.n],
                            PercentageDivide(this.val, call.factor.n, call.factor.d))

PctAbs ==
    LET this == PercentageNew(call.x.n, call.x.d)
    IN  /\ this.ok
        /\ PercentageCalled("abs", [n |-> Abs(this.val.value), d |-> 1],
                            PercentageAbs(this.val))

NextPercentage ==
    \/ PctConstruct
    \/ PctFromString
    \/ PctFromDecimal
    \/ PctAdd
    \/ PctSubtract
    \/ PctMultiply
    \/ PctDivide
    \/ PctAbs

SpecPercentage == InitPercentage /\ [][NextPercentage]_vars

PercentageOps ==
    {"new Percentage", "fromString", "fromDecimal", "add", "subtract", "multiply", "divide",
     "abs"}

\* h hundredths is a nearest hundredth to the number n/d
NearestHundredth(h, n, d) ==
    IF d > 0 THEN 2 * Abs(h * d - n) <= d ELSE 2 * Abs(h * d - n) <= 0 - d

\* C18: every Percentage the constructor, fromString, fromDecimal, add,
\* subtract, multiply, divide or abs yields holds the exact result of the
\* operation rounded to 2 decimal places (a whole number of hundredths).
C18_RoundedToCents ==
    (call.op \in PercentageOps /\ call.res.ok) =>
        /\ call.res.val.value \in Int
        /\ NearestHundredth(call.res.val.value, call.exact.n, call.exact.d)

\* 0.03% times 3/2 is 0.045%, held as 0.05%
C18_Witness ==
    /\ call.op = "multiply" /\ call.res.ok
    /\ call.exact = [n |-> 9, d |-> 2]
    /\ call.res.val.value = 5

(***************************************************************************)
(* Portfolio.isDiversified                                                 *)
(***************************************************************************)
\* C19: for every valid Portfolio, isDiversified() is true exactly when
\* activePositions >= 5.
C19_Diversified ==
    pout.op = "diversified" =>
        (pout.out.val <=> pout.data.activePositions >= 5)

\* a portfolio of exactly five positions reports itself diversified
C19_Witness ==
    /\ pout.op = "diversified"
    /\ pout.data.activePositions = 5
    /\ pout.out.val

(***************************************************************************)
(* Services resolved by the routes                                         *)
(***************************************************************************)
\* the keys registerRoutes and its handlers pass to container.get
ResolvedServices ==
    {"GetPortfolioUseCase", "GetMarketDataUseCase", "GetTransactionsUseCase",
     "GetDashboardDataUseCase", "ManageWatchlistUseCase"}

\* C20: every key the routes resolve is registered by
\* Container.registerServices, so no endpoint answers with 'Service not
\* found: <key>'.
C20_NoServiceNotFound ==
    \A key \in ResolvedServices :
        ~(/\ "status" \in DOMAIN last
          /\ last.status = 500
          /\ last.body = [message |-> "Service not found: " \o key])

(***************************************************************************)
(* Transaction.getSignedAmount                                             *)
(***************************************************************************)
\* C21: getSignedAmount returns a positive amount for buy and dividend
\* transactions and a negative amount for sell transactions.
C21_SignedAmount ==
    call.op = "getSignedAmount" =>
        /\ call.data.type \in {"buy", "dividend"} => call.out.val.amount > 0
        /\ call.data.type = "sell" => call.out.val.amount < 0

(***************************************************************************)
(* ManageWatchlistUseCase called with the payloads the routes hand over    *)
(***************************************************************************)
getUserWatchlist(userId) ==
    LET watchlistData == WatchlistGetByUserId(userId)
        stocksData == StockGetAll
        watchlistItems == [i \in 1..Len(watchlistData) |-> WatchlistItemNew(watchlistData[i])]
        stocks == [i \in 1..Len(stocksData) |-> StockNew(stocksData[i])]
        Fail(r) == Wrap("Failed to get watchlist", r)
    IN  IF FirstError(watchlistItems) # Null THEN Fail(FirstError(watchlistItems))
        ELSE IF FirstError(stocks) # Null THEN Fail(FirstError(stocks))
        ELSE LET performance ==
                     calculateWatchlistPerformance(
                         [i \in 1..Len(watchlistItems) |-> watchlistItems[i].val],
                         [i \in 1..Len(stocks) |-> stocks[i].val])
                 dtos == [i \in 1..Len(watchlistItems) |-> mapItemToDto(watchlistItems[i].val)]
             IN  IF ~performance.ok THEN Fail(performance)
                 ELSE IF FirstError(dtos) # Null THEN Fail(FirstError(dtos))
                 ELSE Ok([items |-> [i \in 1..Len(dtos) |-> dtos[i].val],
                          stocks |-> [i \in 1..Len(stocks) |-> mapStockToDto(stocks[i].val)],
                          performance |-> performance.val])

MaxUseCaseCalls == 3

CallUserIds == {1, 2}

\* a seeded item and the first created one
CallItemIds == {1, 4}

CallCreateDtos == {[symbol |-> MSFT], [symbol |-> TOOLONG]}

\* the PATCH route hands req.body over as it is: besides the fields of
\* UpdateWatchlistItemDto a payload can carry symbol or userId
CallUpdateDtos == {[notes |-> <<"x">>], [symbol |-> TSLA], [userId |-> 2]}

InitUseCase ==
    /\ items = SampleItems
    /\ userItems = SampleUserItems
    /\ currentId = 4
    /\ call = [op |-> "calls", n |-> 0]
    /\ last = [op |-> "none"]
    /\ portfolios = <<>> /\ pCurrentId = 1 /\ pout = [op |-> "none"]
    /\ mny = [ops |-> <<>>] /\ alr = [op |-> "none"]
    /\ services = RegisteredServices

\* one more call of the use case, leaving the repository as out has it
Called(out) ==
    /\ call.n < MaxUseCaseCalls
    /\ call' = [call EXCEPT !.n = @ + 1]
    /\ items' = out.items
    /\ userItems' = out.userItems
    /\ currentId' = out.currentId
    /\ UNCHANGED <<mny, portfolios, pCurrentId, pout, alr, services>>

UcGetUserWatchlist(userId) ==
    /\ last' = [op |-> "get", userId |-> userId, res |-> getUserWatchlist(userId)]
    /\ Called(Outcome(Null, items, userItems, currentId))

UcAddToWatchlist(userId, createDto) ==
    LET out == addToWatchlist(userId, createDto)
    IN  /\ last' = [op |-> "add", userId |-> userId, dto |-> createDto, res |-> out.res]
        /\ Called(out)

UcUpdateWatchlistItem(userId, itemId, updateDto) ==
    LET out == updateWatchlistItem(userId, itemId, updateDto)
    IN  /\ last' = [op |-> "update", userId |-> userId, itemId |-> itemId, dto |-> updateDto,
                    res |-> out.res]
        /\ Called(out)

UcRemoveFromWatchlist(userId, itemId) ==
    LET out == removeFromWatchlist(userId, itemId)
    IN  /\ last' = [op |-> "remove", userId |-> userId, itemId |-> itemId, res |-> out.res]
        /\ Called(out)

UcGet == \E userId \in CallUserIds : UcGetUserWatchlist(userId)

UcAdd == \E userId \in CallUserIds, createDto \in CallCreateDtos :
            UcAddToWatchlist(userId, createDto)

UcUpdate == \E userId \in CallUserIds, itemId \in CallItemIds, updateDto \in CallUpdateDtos :
               UcUpdateWatchlistItem(userId, itemId, updateDto)

UcRemove == \E userId \in CallUserIds, itemId \in CallItemIds :
               UcRemoveFromWatchlist(userId, itemId)

NextUseCase ==
    \/ UcGet
    \/ UcAdd
    \/ UcUpdate
    \/ UcRemove

SpecUseCase == InitUseCase /\ [][NextUseCase]_vars

\* C22: in every state add, update and remove calls can reach, no user has
\* two watchlist items with the same symbol, compared case-insensitively.
C22_NoDuplicateSymbols ==
    \A userId \in CallUserIds :
        LET watchlist == WatchlistGetByUserId(userId)
        IN  \A i, j \in 1..Len(watchlist) :
                i # j => ToUpperCase(watchlist[i].symbol) # ToUpperCase(watchlist[j].symbol)

\* C23: updateWatchlistItem changes at most the notes, targetPrice and
\* alertEnabled of the addressed item: its id, userId, symbol and addedAt, and
\* every other stored item, stay as they were whatever the payload carries.
C23_UpdateFrame ==
    [][last'.op = "update" =>
          /\ DOMAIN items' = DOMAIN items
          /\ \A id \in DOMAIN items :
                IF id = last'.itemId
                THEN \A f \in {"id", "userId", "symbol", "addedAt"} : items'[id][f] = items[id][f]
                ELSE items'[id] = items[id]]_vars

\* C24: a call made with userId A leaves the watchlist returned for every
\* other user B as it was; update and remove of an item owned by another
\* user fail with 'Watchlist item not found'.
C24_OtherUsersUntouched ==
    [][last'.op \in {"add", "update", "remove"} =>
          /\ \A userId \in CallUserIds \ {last'.userId} :
                ItemsOf(UserItemIds(userId))' = ItemsOf(UserItemIds(userId))
          /\ (/\ last'.op \in {"update", "remove"}
              /\ last'.itemId \in DOMAIN items
              /\ items[last'.itemId].userId # last'.userId)
                => (~last'.res.ok /\ last'.res.err = "Watchlist item not found")]_vars

\* C25: after any sequence of add, update and remove calls getUserWatchlist
\* succeeds for every user: every stored item has a symbol StockSymbol accepts
\* and a target price that is absent or a valid non-negative Money string.
C25_WatchlistReadable ==
    /\ \A userId \in CallUserIds : getUserWatchlist(userId).ok
    /\ \A id \in DOMAIN items : ItemSymbol(items[id]).ok /\ ItemTargetPrice(items[id]).ok

(***************************************************************************)
(* WatchlistViewModel (client) against WatchlistService.checkAlerts        *)
(***************************************************************************)
\* parseFloat(text.replace(/[$,]/g, '')) of a toFormattedString() text, in
\* cents: the dollar sign and the commas are taken out, any other currency
\* sign is left in front of the digits
parsePrice(money) == IF money.currency = USD THEN Int32(money.amount) ELSE NaN

\* this.data.stocks.find(stock => stock.symbol === symbol)
vmFindStockBySymbol(symbol, stockDtos) ==
    IF \E i \in 1..Len(stockDtos) : stockDtos[i].symbol = symbol
    THEN stockDtos[CHOOSE i \in 1..Len(stockDtos) :
                      /\ stockDtos[i].symbol = symbol
                      /\ \A j \in 1..(i - 1) : stockDtos[j].symbol # symbol]
    ELSE Null

\* prices in cents; |current - target| <= target * 0.02
calculateAlertStatus(item, stock) ==
    IF ~item.alertEnabled \/ item.targetPrice = Null \/ stock = Null THEN "none"
    ELSE LET currentPrice == stock.price
             targetPrice == parsePrice(item.targetPrice)
         IN  IF isNaN(targetPrice) THEN "below_target"
             ELSE IF 50 * Abs(currentPrice - targetPrice.n) <= targetPrice.n THEN "at_target"
             ELSE IF currentPrice > targetPrice.n THEN "above_target"
             ELSE "below_target"

getWatchlistItems(itemDtos, stockDtos) ==
    [i \in 1..Len(itemDtos) |->
        [id |-> itemDtos[i].id, symbol |-> itemDtos[i].symbol,
         alertEnabled |-> itemDtos[i].alertEnabled,
         alertStatus |-> calculateAlertStatus(itemDtos[i],
                             vmFindStockBySymbol(itemDtos[i].symbol, stockDtos))]]

getItemsWithAlerts(itemDtos, stockDtos) ==
    SelectSeq(getWatchlistItems(itemDtos, stockDtos),
              LAMBDA item : item.alertEnabled /\ item.alertStatus # "none")

MaxViewItems == 2

\* AAPL with and without a $200.00 or $1.00 target, alert on or off; TSLA
\* with a $2.00 target; NVDA, for which there is no stock
ViewItemInputs ==
    {[id |-> 1, userId |-> 1, symbol |-> AAPL, addedAt |-> Now, alertEnabled |-> TRUE],
     [id |-> 2, userId |-> 1, symbol |-> AAPL, addedAt |-> Now, alertEnabled |-> TRUE,
      targetPrice |-> NumStr(20000, 1)],
     [id |-> 3, userId |-> 1, symbol |-> AAPL, addedAt |-> Now, alertEnabled |-> FALSE,
      targetPrice |-> NumStr(20000, 1)],
     [id |-> 4, userId |-> 1, symbol |-> AAPL, addedAt |-> Now, alertEnabled |-> TRUE,
      targetPrice |-> NumStr(100, 1)],
     [id |-> 5, userId |-> 1, symbol |-> TSLA, addedAt |-> Now, alertEnabled |-> TRUE,
      targetPrice |-> NumStr(200, 1)],
     [id |-> 6, userId |-> 1, symbol |-> NVDA, addedAt |-> Now, alertEnabled |-> TRUE,
      targetPrice |-> NumStr(200, 1)]}

ViewWatchlists == UNION {[1..n -> ViewItemInputs] : n \in 0..MaxViewItems}

\* AAPL around the 2% band of $200.00 and of $1.00
ViewPriceInputs == {98, 100, 102, 103, 19599, 19600, 20000, 20100, 20400, 20401, 21000}

ViewStockInputs ==
    {<<>>}
    \cup {<<StockNew(StockDataOf(1, AAPL, p)).val, StockNew(StockDataOf(2, TSLA, q)).val>>
            : p \in ViewPriceInputs, q \in {199, 210}}

InitView ==
    /\ \E watchlist \in ViewWatchlists, stocks \in ViewStockInputs :
          call = [op |-> "input", watchlistItems |-> watchlist, currentStocks |-> stocks]
    /\ CallIdle

\* the server side: the alerts behind performance.itemsWithAlerts
VwCheckAlerts ==
    /\ call.op = "input"
    /\ call' = [op |-> "checkAlerts", watchlistItems |-> call.watchlistItems,
                currentStocks |-> call.currentStocks,
                alerts |-> checkAlerts(call.watchlistItems, call.currentStocks)]
    /\ CallUnchanged

\* the client side, on the DTOs getUserWatchlist sends
VwGetItemsWithAlerts ==
    /\ call.op = "checkAlerts" /\ call.alerts.ok
    /\ LET itemDtos == [i \in 1..Len(call.watchlistItems) |->
                           mapItemToDto(call.watchlistItems[i]).val]
           stockDtos == [i \in 1..Len(call.currentStocks) |->
                            mapStockToDto(call.currentStocks[i])]
       IN  call' = [op |-> "getItemsWithAlerts", watchlistItems |-> call.watchlistItems,
                    currentStocks |-> call.currentStocks, alerts |-> call.alerts,
                    shown |-> getItemsWithAlerts(itemDtos, stockDtos)]
    /\ CallUnchanged

NextView ==
    \/ VwCheckAlerts
    \/ VwGetItemsWithAlerts

SpecView == InitView /\ [][NextView]_vars

\* C29: getItemsWithAlerts returns an item exactly when checkAlerts emits an
\* alert for it, with alertStatus equal to the alert's alertType, so both
\* lists have the same length.
C29_ClientServerAgree ==
    call.op = "getItemsWithAlerts" =>
        [i \in 1..Len(call.shown) |-> <<call.shown[i].id, call.shown[i].alertStatus>>]
          = [i \in 1..Len(call.alerts.val) |->
                <<call.alerts.val[i].watchlistItem, call.alerts.val[i].alertType>>]

(***************************************************************************)
(* Ids issued by create                                                    *)
(***************************************************************************)
\* C27: create assigns an id that differs from the id of every record
\* already stored, the seeded sample records included (here for the
\* portfolio repository).
C27_FreshId ==
    [][pout'.op = "create" =>
          \A userId \in DOMAIN portfolios : portfolios[userId].id # pout'.res.val]_vars

\* C28: calculatePortfolioMetrics returns a metrics record, without throwing,
\* for every list of valid Transactions and every price map.
C28_MetricsReturn ==
    call.op = "calculatePortfolioMetrics" => call.res.ok

(***************************************************************************)
(* MemoryWatchlistRepository: the two maps against each other              *)
(***************************************************************************)
\* C30: in every reachable state of the repository an id is listed in
\* userItems[u] exactly when items holds a record under that id whose userId
\* is u, each id is listed at most once, and every record is stored under
\* the key equal to its own id.
C30_MapsAgree ==
    call.op = "repository" =>
        /\ \A userId \in RepoUserIds, id \in RepoIdInputs \cup (1..currentId) :
              (\E k \in 1..Len(UserItemIds(userId)) : UserItemIds(userId)[k] = id)
                 <=> (id \in DOMAIN items /\ items[id].userId = userId)
        /\ \A userId \in RepoUserIds :
              \A j, k \in 1..Len(UserItemIds(userId)) :
                 j # k => UserItemIds(userId)[j] # UserItemIds(userId)[k]
        /\ \A id \in DOMAIN items : items[id].id = id

(***************************************************************************)
(* addToWatchlist calls in flight together.  A call gives way at each      *)
(* await: after getByUserIdAndSymbol has read the maps, and after create   *)
(* has written them.                                                       *)
(***************************************************************************)
MaxInFlight == 2

InFlightInputs ==
    [userId : {1, 2}, dto : {[symbol |-> MSFT], [symbol |-> <<"m", "s", "f", "t">>],
                             [symbol |-> AAPL]}]

InitInFlight ==
    /\ items = SampleItems
    /\ userItems = SampleUserItems
    /\ currentId = 4
    /\ \E inputs \in [1..MaxInFlight -> InFlightInputs] :
          call = [op |-> "in flight",
                  calls |-> [i \in 1..MaxInFlight |->
                                [pc |-> "start", userId |-> inputs[i].userId,
                                 dto |-> inputs[i].dto, existing |-> Null, item |-> Null,
                                 res |-> Null]]]
    /\ last = [op |-> "none"]
    /\ portfolios = <<>> /\ pCurrentId = 1 /\ pout = [op |-> "none"]
    /\ mny = [ops |-> <<>>] /\ alr = [op |-> "none"]
    /\ services = RegisteredServices

InFlightUnchanged == UNCHANGED <<last, mny, portfolios, pCurrentId, pout, alr, services>>

\* const existing = await this.watchlistRepository.getByUserIdAndSymbol(...)
AwaitExisting(i) ==
    LET c == call.calls[i]
    IN  /\ c.pc = "start"
        /\ call' = [call EXCEPT !.calls[i] =
                       [c EXCEPT !.pc = "checked",
                                 !.existing = WatchlistGetByUserIdAndSymbol(c.userId, c.dto)]]
        /\ UNCHANGED <<items, userItems, currentId>>
        /\ InFlightUnchanged

\* if (existing) throw ...; const newItemData = await this.watchlistRepository.create(...)
AwaitCreate(i) ==
    LET c == call.calls[i]
        Fail(r) == [c EXCEPT !.pc = "done", !.res = Wrap("Failed to add to watchlist", r)]
    IN  /\ c.pc = "checked"
        /\ IF ~c.existing.ok
           THEN /\ call' = [call EXCEPT !.calls[i] = Fail(c.existing)]
                /\ UNCHANGED <<items, userItems, currentId>>
           ELSE IF c.existing.val # Null
           THEN /\ call' = [call EXCEPT !.calls[i] = Fail(Err("Stock already in watchlist"))]
                /\ UNCHANGED <<items, userItems, currentId>>
           ELSE LET created == WatchlistCreate(NewItemData(c.userId, c.dto))
                IN  /\ call' = [call EXCEPT !.calls[i] =
                                   [c EXCEPT !.pc = "created", !.item = created.item]]
                    /\ items' = created.items
                    /\ userItems' = created.userItems
                    /\ currentId' = created.currentId
        /\ InFlightUnchanged

\* return this.mapItemToDto(new WatchlistItem(newItemData))
ReturnDto(i) ==
    LET c == call.calls[i]
        dto == ItemDtoOf(c.item)
    IN  /\ c.pc = "created"
        /\ call' = [call EXCEPT !.calls[i] =
                       [c EXCEPT !.pc = "done",
                                 !.res = IF dto.ok THEN dto
                                         ELSE Wrap("Failed to add to watchlist", dto)]]
        /\ UNCHANGED <<items, userItems, currentId>>
        /\ InFlightUnchanged

NextInFlight ==
    \/ \E i \in 1..MaxInFlight : AwaitExisting(i)
    \/ \E i \in 1..MaxInFlight : AwaitCreate(i)
    \/ \E i \in 1..MaxInFlight : ReturnDto(i)

SpecInFlight == InitInFlight /\ [][NextInFlight]_vars

\* C26: of two addToWatchlist calls in flight for the same user and symbol,
\* at most one creates an item and the other fails with 'Stock already in
\* watchlist'.
C26_OneCreates ==
    call.op = "in flight" =>
        \A i, j \in 1..MaxInFlight :
            (/\ i # j
             /\ call.calls[i].pc = "done" /\ call.calls[j].pc = "done"
             /\ call.calls[i].userId = call.calls[j].userId
             /\ ToUpperCase(call.calls[i].dto.symbol) = ToUpperCase(call.calls[j].dto.symbol))
            => /\ ~(call.calls[i].item # Null /\ call.calls[j].item # Null)
               /\ \/ (~call.calls[i].res.ok /\ call.calls[i].res.err = "Stock already in watchlist")
                  \/ (~call.calls[j].res.ok /\ call.calls[j].res.err = "Stock already in watchlist")


====
